---- MODULE Spec2Model ----
(***************************************************************************)
(* Verification model of mealie-organizer.                                 *)
(*                                                                         *)
(*   SpecParser    the ingredient parsing pipeline (ingredient_parser.py)  *)
(*   SpecCleanup   the foods, units and tools cleanup engines              *)
(*   SpecCatBatch  one process_batch call of the classification engine     *)
(*   SpecCatRun    run() of the classification engine with its workers     *)
(*   SpecCatCache  the recipe PATCH and the cache write, step by step      *)
(*   SpecParserRun run_parser over several candidates                      *)
(*   SpecServer    concurrent POST requests to the companion server        *)
(*   SpecCheckpoint the cleanup loop with the checkpoint write in steps     *)
(*   SpecFoodsFuzzy the foods cleanup with allow_fuzzy                      *)
(*   SpecHttp      one request of the HTTP client and its retry policy     *)
(*   SpecPipeline  run_pipeline of the maintenance pipeline                *)
(*   SpecJson      parse_json_response on LLM responses                    *)
(*   SpecCatRunFair run() with provider and REST calls that return          *)
(*   SpecQuery     safe_query_with_retry, attempt by attempt               *)
(*   SpecMerge     _merge_entity, candidate payload by candidate payload   *)
(*                                                                         *)
(* Text is modelled as a sequence of one-character strings, so that        *)
(* str(), strip(), lower() and substring tests are computed, not assumed.  *)
(***************************************************************************)
EXTENDS Integers, Sequences, FiniteSets, TLC

VARIABLES
    \* ---- run_parser (ingredient_parser.py) ----
    rp_pc,                  \* position of run_parser
    rp_dry_run,             \* config.dry_run
    rp_total,               \* len(slugs): the candidates are 1..rp_total
    rp_idx,                 \* index of the candidate being handled
    rp_items,               \* recipeIngredient of the recipe fetched last
    rp_raw_lines,           \* sanitized raw lines of the current recipe
    rp_strategy,            \* index into parser_strategies of the next strategy
    rp_attempts,            \* attempts of parse_with_fallback for this recipe
    rp_parser_used,         \* accepted strategy, "" when none
    rp_block_len,           \* len(parsed_block) of the accepted response
    rp_item,                \* number of items of parsed_block already normalized
    rp_normalized,          \* normalized list being built
    rp_suspicious_reasons,  \* reason -> count, for this recipe
    rp_dropped_blank,       \* dropped_blank of this recipe
    rp_create_conflict,     \* a create_food call for this recipe met a duplicate
    rp_summary,             \* ParserRunSummary
    rp_reviews,             \* the reviews list
    rp_successes,           \* the successes list
    rp_calls,               \* remote calls issued by the last step, in order
    \* ---- foods, units and tools cleanup (run() of the three managers) ----
    cl_engine,              \* "foods", "units" or "tools"
    cl_apply,               \* self.apply
    cl_dry_run,             \* self.dry_run
    cl_max_actions,         \* self.max_actions
    cl_config_file,         \* the alias file (units) or the tools file (tools)
    cl_remote,              \* every entity the server has held, created ones included
    cl_merged_away,         \* ids of the entities a successful merge has removed
    cl_recipes,             \* per recipe, the food ids its ingredients refer to
    cl_checkpoint_file,     \* merged_source_ids of the checkpoint file on disk
    cl_run,                 \* "none", "first", "second": the runs started so far
    cl_pc,                  \* position of run()
    cl_plan,                \* plan / actions / merge_candidates
    cl_checkpoint,          \* checkpoint = load_checkpoint()
    cl_merged_source_ids,   \* applied_source_ids / merged_source_ids
    cl_idx,                 \* index into the plan of the next action
    cl_applied,             \* applied / merged
    cl_failed,              \* failed
    cl_skipped_checkpoint,  \* skipped_checkpoint
    cl_attempted,           \* attempted / merge_actions
    cl_created,             \* created_canonicals / create_actions
    cl_unmapped,            \* unmapped_units (units only)
    cl_allow_fuzzy,         \* self.allow_fuzzy (foods only)
    cl_fuzzy_candidates,    \* fuzzy_candidates (foods only)
    cl_report,              \* the report of the last finished run
    cl_calls,               \* every remote call issued so far, in order
    \* ---- classification engine (categorizer_core.py) ----
    cat_pc,                 \* position of run(): "idle", "run", "pool", "done"
    cat_dry_run,            \* self.dry_run
    cat_replace_existing,   \* self.replace_existing
    cat_target_mode,        \* self.target_mode
    cat_batch_size,         \* self.batch_size
    cat_max_workers,        \* self.max_workers
    cat_query_retries,      \* self.query_retries
    cat_recipes,            \* all_recipes, as fetched
    cat_batches,            \* batches = list(batch_recipes(targets, batch_size))
    cat_queue,              \* indices of the submitted batches no thread has started
    cat_takes,              \* which thread started which batch, in order
    cat_worker,             \* per thread of the executor, its process_batch call
    cat_cache,              \* self.cache
    cat_cache_file,         \* the cache file on disk
    cat_stats,              \* self.stats
    cat_progress,           \* self.progress
    cat_patches,            \* every recipe PATCH request issued so far
    cat_cache_lock,         \* the thread holding self.cache_lock, 0 when it is free
    cat_stop_event,         \* progress_stop_event is set
    cat_reporter,           \* the eta_reporter thread: its position and last_done
    \* ---- the companion server (plugin_server.py) ----
    srv_controller,         \* server.run_controller: the state its snapshot() shows
    srv_request,            \* per POST request, the position of its do_POST call
    srv_worker,             \* per POST request, the thread it started for its run
    \* ---- the HTTP client (api_client.py) ----
    http_pc,                \* position of one _request_raw call
    http_method,            \* method of the request
    http_retries,           \* self.retries
    http_retry_class,       \* whether urllib3's Retry took the keyword arguments
    http_remaining,         \* Retry.total of the request: retries still allowed
    http_sent,              \* how often the request has been sent
    http_response,          \* the last response: status code and Retry-After header
    \* ---- the maintenance pipeline (data_maintenance.py) ----
    pl_pc,                  \* position of run_pipeline
    pl_stages,              \* stages
    pl_continue_on_error,   \* continue_on_error
    pl_results,             \* results
    pl_calls,               \* the stages run_stage was called with, in order
    \* ---- parse_json_response (categorizer_core.py) ----
    js_pc,                  \* "call" before parse_json_response, "returned" after
    js_text,                \* result_text
    js_result,              \* the value returned
    \* ---- safe_query_with_retry (categorizer_core.py) ----
    sq_pc,                  \* "loop" inside safe_query_with_retry, "returned" after
    sq_query_retries,       \* self.query_retries
    sq_attempt,             \* attempt, the loop variable
    sq_log,                 \* provider calls, warnings and sleeps, in order
    sq_stats,               \* query_retry_warnings and query_failures
    sq_result,              \* the value returned
    \* ---- _merge_entity (api_client.py) ----
    mg_pc,                  \* "loop" inside _merge_entity, then "returned" or "raised"
    mg_route,               \* route
    mg_next,                \* index into payload_candidates of the next candidate
    mg_sent,                \* the requests sent, in order, with their outcomes
    mg_last_exc,            \* last_exc
    mg_result               \* the value returned or the exception raised

rp_vars == <<rp_pc, rp_dry_run, rp_total, rp_idx, rp_items, rp_raw_lines, rp_strategy, rp_attempts,
             rp_parser_used, rp_block_len, rp_item, rp_normalized,
             rp_suspicious_reasons, rp_dropped_blank, rp_create_conflict, rp_summary,
             rp_reviews, rp_successes, rp_calls>>

cl_vars == <<cl_engine, cl_apply, cl_dry_run, cl_max_actions, cl_config_file, cl_remote,
             cl_merged_away, cl_recipes, cl_checkpoint_file, cl_run, cl_pc, cl_plan,
             cl_checkpoint, cl_merged_source_ids, cl_idx, cl_applied, cl_failed,
             cl_skipped_checkpoint, cl_attempted, cl_created, cl_unmapped, cl_allow_fuzzy,
             cl_fuzzy_candidates, cl_report,
             cl_calls>>

cat_vars == <<cat_pc, cat_dry_run, cat_replace_existing, cat_target_mode, cat_batch_size,
              cat_max_workers, cat_query_retries, cat_recipes, cat_batches, cat_queue,
              cat_takes, cat_worker, cat_cache, cat_cache_file, cat_stats, cat_progress,
              cat_patches, cat_cache_lock, cat_stop_event, cat_reporter>>

cat_reporter_vars == <<cat_stop_event, cat_reporter>>

srv_vars == <<srv_controller, srv_request, srv_worker>>

http_vars == <<http_pc, http_method, http_retries, http_retry_class, http_remaining, http_sent,
               http_response>>

pl_vars == <<pl_pc, pl_stages, pl_continue_on_error, pl_results, pl_calls>>

js_vars == <<js_pc, js_text, js_result>>

sq_vars == <<sq_pc, sq_query_retries, sq_attempt, sq_log, sq_stats, sq_result>>

mg_vars == <<mg_pc, mg_route, mg_next, mg_sent, mg_last_exc, mg_result>>

not_rp_vars == <<cl_vars, cat_vars, srv_vars, http_vars, pl_vars, js_vars, sq_vars, mg_vars>>

not_cl_vars == <<rp_vars, cat_vars, srv_vars, http_vars, pl_vars, js_vars, sq_vars, mg_vars>>

not_cat_vars == <<rp_vars, cl_vars, srv_vars, http_vars, pl_vars, js_vars, sq_vars, mg_vars>>

not_srv_vars == <<rp_vars, cl_vars, cat_vars, http_vars, pl_vars, js_vars, sq_vars, mg_vars>>

not_http_vars == <<rp_vars, cl_vars, cat_vars, srv_vars, pl_vars, js_vars, sq_vars, mg_vars>>

not_pl_vars == <<rp_vars, cl_vars, cat_vars, srv_vars, http_vars, js_vars, sq_vars, mg_vars>>

not_js_vars == <<rp_vars, cl_vars, cat_vars, srv_vars, http_vars, pl_vars, sq_vars, mg_vars>>

not_sq_vars == <<rp_vars, cl_vars, cat_vars, srv_vars, http_vars, pl_vars, js_vars, mg_vars>>

not_mg_vars == <<rp_vars, cl_vars, cat_vars, srv_vars, http_vars, pl_vars, js_vars, sq_vars>>

vars == <<rp_vars, cl_vars, cat_vars, srv_vars, http_vars, pl_vars, js_vars, sq_vars, mg_vars>>

-----------------------------------------------------------------------------
(* Bounds of the model *)

MaxRecipes == 1     \* candidates of one run_parser run
MaxLines == 2       \* items of one parser response
MaxEntities == 3    \* foods, units or tools the server holds before the first run
MaxCap == 2         \* largest max_actions of an apply run
MaxHttpRetries == 2 \* largest self.retries of the HTTP client
MaxStages == 3      \* longest stage list of the maintenance pipeline
MaxItems == 2       \* most entries of the array in an LLM response
MaxBatch == 2       \* recipes the classification engine is given
MaxRequests == 3    \* POST requests the companion server receives
MaxCandidates == 2  \* candidates of a run_parser run over several recipes

-----------------------------------------------------------------------------
(* Python text primitives on sequences of characters *)

Whitespace == {" ", "\t", "\n"}

UpperCase == <<"A","B","C","D","E","F","G","H","I","J","K","L","M",
               "N","O","P","Q","R","S","T","U","V","W","X","Y","Z">>
LowerCase == <<"a","b","c","d","e","f","g","h","i","j","k","l","m",
               "n","o","p","q","r","s","t","u","v","w","x","y","z">>

\* upper-case letter -> lower-case letter
ToLower ==
    [c \in {UpperCase[i] : i \in 1..Len(UpperCase)} |->
        LowerCase[CHOOSE i \in 1..Len(UpperCase) : UpperCase[i] = c]]

LowerChar(c) == IF c \in DOMAIN ToLower THEN ToLower[c] ELSE c

\* str.lower() and, for these letters, str.casefold()
Lower(s) == [i \in 1..Len(s) |-> LowerChar(s[i])]

RECURSIVE LStrip(_)
LStrip(s) == IF s # <<>> /\ Head(s) \in Whitespace THEN LStrip(Tail(s)) ELSE s

RECURSIVE RStrip(_)
RStrip(s) ==
    IF s # <<>> /\ s[Len(s)] \in Whitespace THEN RStrip(SubSeq(s, 1, Len(s) - 1)) ELSE s

\* str.strip()
Strip(s) == RStrip(LStrip(s))

\* `sub in s` for strings
Contains(s, sub) ==
    \E i \in 0..(Len(s) - Len(sub)) : SubSeq(s, i + 1, i + Len(sub)) = sub

\* Python None where a text is expected; no text equals it
NoneV == <<"<None>">>

\* str(value): str(None) is the text "None"
PyStr(v) == IF v = NoneV THEN <<"N","o","n","e">> ELSE v

-----------------------------------------------------------------------------
(* ingredient_parser.py: constants *)

DEFAULT_PARSER_STRATEGIES == <<"nlp", "openai">>

SERVING_PHRASES ==
    { <<"f","o","r"," ","s","e","r","v","i","n","g">>,
      <<"f","o","r"," ","g","a","r","n","i","s","h">>,
      <<"f","o","r"," ","d","i","p","p","i","n","g">> }

ZERO_QTY_ALLOWED_UNITS == { <<"p","i","n","c","h">>, <<"d","a","s","h">> }

TO_TASTE == <<"t","o"," ","t","a","s","t","e">>

-----------------------------------------------------------------------------
(* Entities (food, unit) of a parsed ingredient.  A JSON object is a record  *)
(* with isdict = TRUE; None and every non-object value has isdict = FALSE.   *)
(* A missing or null id or name is the empty value.                          *)

NoEntity == [isdict |-> FALSE, id |-> "", name |-> <<>>]

Entity(id, name) == [isdict |-> TRUE, id |-> id, name |-> name]

\* slim_entity: None unless an object with a non-empty id; the name is stripped
slim_entity(entity) ==
    IF ~entity.isdict THEN NoEntity
    ELSE IF entity.id = "" THEN NoEntity
    ELSE Entity(entity.id, Strip(entity.name))

\* A quantity of a parser response: a number, or a value float() rejects
\* (null, a non-numeric text)
Num(n) == [isnum |-> TRUE, value |-> n]
NotANumber == [isnum |-> FALSE, value |-> 0]

\* _quantity_value: float(value), 0.0 when float() raises
_quantity_value(value) == IF value.isnum THEN value.value ELSE 0

\* _has_entity
_has_entity(entity) ==
    IF ~entity.isdict THEN FALSE
    ELSE entity.id # "" \/ Strip(entity.name) # <<>>

\* _entity_name
_entity_name(entity) == IF ~entity.isdict THEN <<>> ELSE Lower(Strip(entity.name))

\* _is_blank_ingredient
_is_blank_ingredient(ingredient) ==
    LET note == Strip(PyStr(ingredient.note))
        quantity == _quantity_value(ingredient.quantity)
        has_food == _has_entity(ingredient.food)
        has_unit == _has_entity(ingredient.unit)
    IN  note = <<>> /\ quantity = 0 /\ ~has_food /\ ~has_unit

\* _suspicion_reason: "" stands for None (not suspicious)
_suspicion_reason(ingredient) ==
    IF _is_blank_ingredient(ingredient) THEN ""
    ELSE
      LET note == Lower(Strip(PyStr(ingredient.note)))
          quantity == _quantity_value(ingredient.quantity)
          unit == ingredient.unit
          unit_name == _entity_name(unit)
      IN  IF \E phrase \in SERVING_PHRASES : Contains(note, phrase) THEN ""
          ELSE IF quantity = 0 /\ unit # NoEntity
               THEN IF unit_name \in ZERO_QTY_ALLOWED_UNITS \/ Contains(note, TO_TASTE)
                    THEN ""
                    ELSE "zero_qty_with_unit"
          ELSE IF ingredient.food = NoEntity /\ note = <<>>
               THEN "missing_food_no_note"
          ELSE ""

-----------------------------------------------------------------------------
(* extract_raw_lines and sanitize_raw_lines *)

Digits == {"0","1","2","3","4","5","6","7","8","9"}

\* number of whitespace-separated words: len(text.split())
RECURSIVE WordCount(_)
WordCount(s) ==
    LET t == LStrip(s)
    IN  IF t = <<>> THEN 0
        ELSE LET RECURSIVE SkipWord(_)
                 SkipWord(u) == IF u # <<>> /\ Head(u) \notin Whitespace
                                THEN SkipWord(Tail(u)) ELSE u
             IN  1 + WordCount(SkipWord(t))

\* re.sub(r"\s+", " ", text): every run of whitespace becomes one space
RECURSIVE CollapseWhitespace(_)
CollapseWhitespace(s) ==
    IF s = <<>> THEN <<>>
    ELSE IF Head(s) \in Whitespace
         THEN <<" ">> \o CollapseWhitespace(LStrip(s))
         ELSE <<Head(s)>> \o CollapseWhitespace(Tail(s))

\* _normalize_line_text (FRACTION_TEXT_REPLACEMENTS maps each fraction to itself)
_normalize_line_text(line) == Strip(CollapseWhitespace(Strip(line)))

HasDigit(s) == \E i \in 1..Len(s) : s[i] \in Digits

\* NON_INGREDIENT_PREFIX_RE: ^(for|to)\s+ , ignoring case
MatchesNonIngredientPrefix(s) ==
    LET l == Lower(s)
    IN  \/ Len(l) >= 4 /\ SubSeq(l, 1, 3) = <<"f","o","r">> /\ l[4] \in Whitespace
        \/ Len(l) >= 3 /\ SubSeq(l, 1, 2) = <<"t","o">> /\ l[3] \in Whitespace

\* _is_non_ingredient_header
_is_non_ingredient_header(line) ==
    LET stripped == Strip(line)
    IN  \/ stripped = <<>>
        \/ stripped[Len(stripped)] = ":" /\ WordCount(stripped) <= 8 /\ ~HasDigit(stripped)
        \/ MatchesNonIngredientPrefix(stripped) /\ WordCount(stripped) <= 8
               /\ ~HasDigit(stripped)

\* sanitize_raw_lines: the cleaned lines (the dropped count is only logged)
RECURSIVE sanitize_raw_lines(_)
sanitize_raw_lines(lines) ==
    IF lines = <<>> THEN <<>>
    ELSE LET line == _normalize_line_text(Head(lines))
         IN  IF line = <<>> \/ _is_non_ingredient_header(line)
             THEN sanitize_raw_lines(Tail(lines))
             ELSE <<line>> \o sanitize_raw_lines(Tail(lines))

\* One entry of recipeIngredient: a raw string, or an object whose food is
\* null or not and whose text is originalText/rawText/note/display.
StrEntry(text) == [isstr |-> TRUE, food_null |-> TRUE, text |-> text]
DictEntry(food_null, text) == [isstr |-> FALSE, food_null |-> food_null, text |-> text]

RECURSIVE StrLines(_)
StrLines(items) ==
    IF items = <<>> THEN <<>>
    ELSE IF Head(items).isstr /\ Strip(Head(items).text) # <<>>
         THEN <<Strip(Head(items).text)>> \o StrLines(Tail(items))
         ELSE StrLines(Tail(items))

RECURSIVE DictLines(_)
DictLines(items) ==
    IF items = <<>> THEN <<>>
    ELSE IF ~Head(items).isstr /\ Strip(Head(items).text) # <<>>
         THEN <<Strip(Head(items).text)>> \o DictLines(Tail(items))
         ELSE DictLines(Tail(items))

\* the test that makes extract_raw_lines raise AlreadyParsed
AlreadyParsed(items) ==
    /\ items # <<>>
    /\ ~items[1].isstr
    /\ ~(\A i \in 1..Len(items) : ~items[i].isstr => items[i].food_null)

\* extract_raw_lines, when it does not raise
extract_raw_lines(items) ==
    IF items = <<>> THEN <<>>
    ELSE IF items[1].isstr THEN StrLines(items)
    ELSE DictLines(items)

\* Ingredient lists a fetched recipe may hold
LineQty == <<"2"," ","x">>
LineSpaced == <<" ","2"," ","\t","x"," ">>
LineHeader == <<"S","a","u","c","e",":">>
LineFor == <<"F","o","r"," ","x">>

RecipeIngredientLists ==
    { <<>>,
      <<StrEntry(LineQty)>>,
      <<StrEntry(LineHeader)>>,
      <<StrEntry(LineFor), StrEntry(LineSpaced)>>,
      <<DictEntry(TRUE, LineQty)>>,
      <<DictEntry(FALSE, LineQty)>>,
      <<DictEntry(TRUE, LineQty), DictEntry(FALSE, LineSpaced)>> }

-----------------------------------------------------------------------------
(* Parser responses *)

FoodWithId == Entity("f1", <<"S","a","l","t">>)
FoodNameOnly == Entity("", <<"D","i","l","l">>)
UnitCup == Entity("u1", <<"c","u","p">>)
UnitPinch == Entity("u2", <<" ","P","i","n","c","h">>)
UnitNoId == Entity("", <<"c","u","p">>)

NoteToTaste == <<"T","o"," ","t","a","s","t","e">>
NoteForServing == <<" ","F","o","r"," ","s","e","r","v","i","n","g">>

Ingredient(note, quantity, food, unit) ==
    [note |-> note, quantity |-> quantity, food |-> food, unit |-> unit]

\* The "ingredient" objects a parser response may hold: one per branch of
\* ensure_food_object, slim_entity, _is_blank_ingredient and _suspicion_reason.
ParsedIngredients ==
    { Ingredient(<<>>, Num(0), NoEntity, NoEntity),
      Ingredient(<<" ">>, NotANumber, NoEntity, UnitNoId),
      Ingredient(NoneV, Num(0), NoEntity, NoEntity),
      Ingredient(<<>>, Num(1), FoodWithId, UnitCup),
      Ingredient(<<>>, Num(1), FoodNameOnly, NoEntity),
      Ingredient(<<>>, Num(0), FoodNameOnly, NoEntity),
      Ingredient(NoteToTaste, Num(1), FoodNameOnly, NoEntity),
      Ingredient(<<>>, Num(0), FoodWithId, UnitCup),
      Ingredient(<<>>, Num(0), FoodWithId, UnitPinch),
      Ingredient(NoteToTaste, Num(0), FoodWithId, UnitCup),
      Ingredient(NoteForServing, Num(0), FoodWithId, UnitCup),
      Ingredient(<<>>, Num(1), NoEntity, UnitCup),
      Ingredient(NoneV, Num(1), NoEntity, UnitCup) }

\* Outcomes of client.create_food: the created object (with or without an
\* id), a uniqueness-constraint error, or another request error.
CreateFoodResponses == {"created", "created_no_id", "duplicate", "error"}

\* ensure_food_object has to call client.create_food
NeedsCreateFood(food) == food.isdict /\ food.id = "" /\ Strip(food.name) # <<>>

\* ensure_food_object; resp is the outcome of client.create_food when called
ensure_food_object(food, resp) ==
    IF ~food.isdict THEN NoEntity
    ELSE IF food.id # "" THEN slim_entity(food)
    ELSE IF Strip(food.name) = <<>> THEN NoEntity
    ELSE IF resp = "created" THEN slim_entity(Entity("f-new", food.name))
    ELSE NoEntity

\* One pass of the loop of normalize_parsed_block over a parser item
NormalizedIngredient(item, resp) ==
    [item EXCEPT !.food = ensure_food_object(item.food, resp),
                 !.unit = slim_entity(item.unit)]

-----------------------------------------------------------------------------
(* run_parser *)

NoReasons == [r \in {"zero_qty_with_unit", "missing_food_no_note"} |-> 0]

ParserRunSummary(total) ==
    [total_candidates |-> total, parsed_successfully |-> 0, requires_review |-> 0,
     skipped_empty |-> 0, skipped_already_parsed |-> 0, dropped_blank_ingredients |-> 0]

rp_Init ==
    /\ rp_pc = "list"
    /\ rp_dry_run \in BOOLEAN
    /\ rp_total = 0
    /\ rp_idx = 0
    /\ rp_items = <<>>
    /\ rp_raw_lines = <<>>
    /\ rp_strategy = 1
    /\ rp_attempts = <<>>
    /\ rp_parser_used = ""
    /\ rp_block_len = 0
    /\ rp_item = 0
    /\ rp_normalized = <<>>
    /\ rp_suspicious_reasons = NoReasons
    /\ rp_dropped_blank = 0
    /\ rp_create_conflict = FALSE
    /\ rp_summary = ParserRunSummary(0)
    /\ rp_reviews = <<>>
    /\ rp_successes = <<>>
    /\ rp_calls = <<>>

\* run_parser is not running
rp_Idle ==
    /\ rp_pc = "idle"
    /\ rp_dry_run = FALSE
    /\ rp_total = 0
    /\ rp_idx = 0
    /\ rp_items = <<>>
    /\ rp_raw_lines = <<>>
    /\ rp_strategy = 1
    /\ rp_attempts = <<>>
    /\ rp_parser_used = ""
    /\ rp_block_len = 0
    /\ rp_item = 0
    /\ rp_normalized = <<>>
    /\ rp_suspicious_reasons = NoReasons
    /\ rp_dropped_blank = 0
    /\ rp_create_conflict = FALSE
    /\ rp_summary = ParserRunSummary(0)
    /\ rp_reviews = <<>>
    /\ rp_successes = <<>>
    /\ rp_calls = <<>>

rp_recipe_vars == <<rp_items, rp_raw_lines, rp_strategy, rp_attempts, rp_parser_used, rp_block_len,
                    rp_item, rp_normalized, rp_suspicious_reasons, rp_dropped_blank,
                    rp_create_conflict>>

\* str(exc) of a requests.RequestException raised by the client
RequestError == "request failed"

\* the review record of a failed client.get_recipe
FetchFailedReview(slug) ==
    [slug |-> slug, reason |-> "recipe_fetch_failed", error |-> RequestError]

\* a faulty review record: the error text is left out
PatchFailedReview_without_error(slug) ==
    [slug |-> slug, reason |-> "patch_failed", error |-> ""]

\* the review record of a failed client.patch_recipe_ingredients
PatchFailedReview(slug) ==
    [slug |-> slug, reason |-> "patch_failed", error |-> RequestError]

\* client.get_recipes and the selection of the candidate slugs
ListRecipes(max_recipes) ==
    /\ rp_pc = "list"
    /\ rp_calls' = <<[op |-> "get_recipes"]>>
    /\ \/ /\ rp_pc' = "raised"
          /\ UNCHANGED <<rp_total, rp_summary>>
       \/ \E n \in 0..max_recipes :
             /\ rp_total' = n
             /\ rp_summary' = ParserRunSummary(n)
             /\ rp_pc' = IF n = 0 THEN "returned" ELSE "fetch"
    /\ UNCHANGED <<not_rp_vars, rp_dry_run, rp_idx, rp_recipe_vars, rp_reviews, rp_successes>>

\* Top of the loop: client.get_recipe, extract_raw_lines, sanitize_raw_lines
GetRecipe ==
    /\ rp_pc = "fetch"
    /\ rp_idx < rp_total
    /\ rp_idx' = rp_idx + 1
    /\ rp_strategy' = 1
    /\ rp_attempts' = <<>>
    /\ rp_parser_used' = ""
    /\ rp_block_len' = 0
    /\ rp_item' = 0
    /\ rp_normalized' = <<>>
    /\ rp_suspicious_reasons' = NoReasons
    /\ rp_dropped_blank' = 0
    /\ rp_create_conflict' = FALSE
    /\ \/ /\ rp_calls' = <<[op |-> "get_recipe", ok |-> FALSE]>>
          /\ rp_reviews' = Append(rp_reviews, FetchFailedReview(rp_idx + 1))
          /\ rp_items' = <<>>
          /\ rp_raw_lines' = <<>>
          /\ UNCHANGED <<rp_summary, rp_pc>>
       \/ \E items \in RecipeIngredientLists :
             /\ rp_calls' = <<[op |-> "get_recipe", ok |-> TRUE]>>
             /\ rp_items' = items
             /\ IF AlreadyParsed(items)
                THEN /\ rp_summary' = [rp_summary EXCEPT !.skipped_already_parsed = @ + 1]
                     /\ rp_raw_lines' = <<>>
                     /\ UNCHANGED <<rp_reviews, rp_pc>>
                ELSE LET raw_lines == sanitize_raw_lines(extract_raw_lines(items))
                     IN  /\ rp_raw_lines' = raw_lines
                         /\ UNCHANGED rp_reviews
                         /\ IF raw_lines = <<>>
                            THEN /\ rp_summary' = [rp_summary EXCEPT !.skipped_empty = @ + 1]
                                 /\ UNCHANGED rp_pc
                            ELSE /\ rp_pc' = "parse"
                                 /\ UNCHANGED rp_summary
    /\ UNCHANGED <<not_rp_vars, rp_dry_run, rp_total, rp_successes>>

\* config.confidence_threshold, in hundredths: the default 0.80
CONFIDENCE_THRESHOLD == 80

\* confidence.average of a parsed line, in hundredths: absent or not a number,
\* just below the threshold, at the threshold
Confidences == {NotANumber, Num(79), Num(80)}

\* the outcomes of client.parse_ingredients: a request error, or the list of
\* parsed lines, each with its confidence
ParserResponses(max_lines) ==
    {[ok |-> FALSE, parsed |-> <<>>]}
      \cup {[ok |-> TRUE, parsed |-> p] : p \in UNION {[1..n -> Confidences] : n \in 0..max_lines}}

\* _confidence: float(confidence.get("average", 0)), 0.0 when that fails
_confidence(average) == IF average.isnum THEN average.value ELSE 0

\* a faulty test: one confident line is enough
AllConfident_any(parsed) ==
    \E k \in 1..Len(parsed) : _confidence(parsed[k]) >= CONFIDENCE_THRESHOLD

\* all(_confidence(item) >= confidence_threshold for item in parsed)
AllConfident(parsed) ==
    \A k \in 1..Len(parsed) : _confidence(parsed[k]) >= CONFIDENCE_THRESHOLD

\* the error of the attempt record, "" when the response is accepted
AttemptError(response) ==
    IF ~response.ok THEN RequestError
    ELSE IF response.parsed = <<>> THEN "empty parser response"
    ELSE IF ~AllConfident(response.parsed) THEN "below confidence threshold"
    ELSE ""

\* One pass of the loop of parse_with_fallback: client.parse_ingredients
ParseStrategy(max_lines) ==
    /\ rp_pc = "parse"
    /\ rp_strategy <= Len(DEFAULT_PARSER_STRATEGIES)
    /\ LET strategy == DEFAULT_PARSER_STRATEGIES[rp_strategy] IN
       \E response \in ParserResponses(max_lines) :
          /\ rp_calls' = <<[op |-> "parse_ingredients", strategy |-> strategy,
                            response |-> response]>>
          /\ IF AttemptError(response) # ""
             THEN /\ rp_attempts' = Append(rp_attempts,
                                           [strategy |-> strategy,
                                            error |-> AttemptError(response)])
                  /\ rp_strategy' = rp_strategy + 1
                  /\ IF rp_strategy = Len(DEFAULT_PARSER_STRATEGIES)
                     THEN /\ rp_reviews' = Append(rp_reviews,
                                 [slug |-> rp_idx, reason |-> "parser_failed_threshold",
                                  raw_lines |-> rp_raw_lines, attempts |-> rp_attempts'])
                          /\ rp_pc' = "fetch"
                     ELSE UNCHANGED <<rp_reviews, rp_pc>>
                  /\ UNCHANGED <<rp_parser_used, rp_block_len>>
             ELSE /\ rp_parser_used' = strategy
                  /\ rp_block_len' = Len(response.parsed)
                  /\ rp_pc' = "normalize"
                  /\ UNCHANGED <<rp_attempts, rp_strategy, rp_reviews>>
    /\ UNCHANGED <<not_rp_vars, rp_dry_run, rp_total, rp_idx, rp_items, rp_raw_lines, rp_item,
                   rp_normalized, rp_suspicious_reasons, rp_dropped_blank, rp_create_conflict,
                   rp_summary, rp_successes>>

\* One pass of the loop of normalize_parsed_block; the item of the parser
\* response is drawn when the loop reaches it.
NormalizeItem ==
    /\ rp_pc = "normalize"
    /\ rp_item < rp_block_len
    /\ \E item \in ParsedIngredients :
       \E resp \in IF NeedsCreateFood(item.food) THEN CreateFoodResponses ELSE {"none"} :
          LET ingredient == NormalizedIngredient(item, resp)
              reason == _suspicion_reason(ingredient)
          IN  /\ IF NeedsCreateFood(item.food)
                 THEN rp_calls' = <<[op |-> "create_food", result |-> resp]>>
                 ELSE rp_calls' = <<>>
              /\ IF _is_blank_ingredient(ingredient)
                 THEN /\ rp_dropped_blank' = rp_dropped_blank + 1
                      /\ UNCHANGED <<rp_normalized, rp_suspicious_reasons>>
                 ELSE /\ rp_normalized' = Append(rp_normalized, ingredient)
                      /\ rp_suspicious_reasons' =
                            IF reason # ""
                            THEN [rp_suspicious_reasons EXCEPT ![reason] = @ + 1]
                            ELSE rp_suspicious_reasons
                      /\ UNCHANGED rp_dropped_blank
              /\ rp_create_conflict' = (rp_create_conflict \/ resp = "duplicate")
    /\ rp_item' = rp_item + 1
    /\ rp_attempts' = <<>>   \* run_parser reads attempts only when no strategy was accepted
    /\ UNCHANGED <<not_rp_vars, rp_pc, rp_dry_run, rp_total, rp_idx, rp_items, rp_raw_lines,
                   rp_strategy,
                   rp_parser_used, rp_block_len, rp_summary, rp_reviews, rp_successes>>

HasSuspicious == \E r \in DOMAIN rp_suspicious_reasons : rp_suspicious_reasons[r] > 0

\* The rest of the loop body of run_parser after normalize_parsed_block:
\* review, plan (dry-run) or client.patch_recipe_ingredients
CommitRecipe ==
    /\ rp_pc = "normalize"
    /\ rp_item = rp_block_len
    /\ rp_pc' = "fetch"
    /\ LET dropped == [rp_summary EXCEPT !.dropped_blank_ingredients = @ + rp_dropped_blank]
       IN
       IF rp_normalized = <<>>
       THEN /\ rp_reviews' = Append(rp_reviews,
                   [slug |-> rp_idx, reason |-> "no_usable_ingredients_after_cleanup"])
            /\ rp_summary' = dropped
            /\ rp_calls' = <<>>
            /\ UNCHANGED rp_successes
       ELSE IF HasSuspicious
       THEN /\ rp_reviews' = Append(rp_reviews,
                   [slug |-> rp_idx, reason |-> "suspicious_result"])
            /\ rp_summary' = dropped
            /\ rp_calls' = <<>>
            /\ UNCHANGED rp_successes
       ELSE IF rp_dry_run
       THEN /\ rp_successes' = Append(rp_successes, rp_idx)
            /\ rp_summary' = [dropped EXCEPT !.parsed_successfully = @ + 1]
            /\ rp_calls' = <<>>
            /\ UNCHANGED rp_reviews
       ELSE \E ok \in BOOLEAN :
                  /\ rp_calls' = <<[op |-> "patch_recipe_ingredients", ok |-> ok,
                                     ingredients |-> rp_normalized]>>
                  /\ IF ok
                     THEN /\ rp_successes' = Append(rp_successes, rp_idx)
                          /\ rp_summary' = [dropped EXCEPT !.parsed_successfully = @ + 1]
                          /\ UNCHANGED rp_reviews
                     ELSE /\ rp_reviews' = Append(rp_reviews, PatchFailedReview(rp_idx))
                          /\ rp_summary' = dropped
                          /\ UNCHANGED rp_successes
    /\ UNCHANGED <<not_rp_vars, rp_dry_run, rp_total, rp_idx, rp_recipe_vars>>

\* a requires_review that counts the run as one review at most
requires_review_at_most_one(reviews) == 1

\* summary.requires_review = len(reviews)
requires_review(reviews) == Len(reviews)

\* After the loop: the success log and the review file are written and
\* requires_review is set
FinishParser ==
    /\ rp_pc = "fetch"
    /\ rp_idx = rp_total
    /\ rp_pc' = "returned"
    /\ rp_summary' = IF rp_reviews # <<>>
                     THEN [rp_summary EXCEPT !.requires_review = requires_review(rp_reviews)]
                     ELSE rp_summary
    /\ rp_items' = <<>>
    /\ rp_raw_lines' = <<>>
    /\ rp_strategy' = 1
    /\ rp_attempts' = <<>>
    /\ rp_parser_used' = ""
    /\ rp_block_len' = 0
    /\ rp_item' = 0
    /\ rp_normalized' = <<>>
    /\ rp_suspicious_reasons' = NoReasons
    /\ rp_dropped_blank' = 0
    /\ rp_create_conflict' = FALSE
    /\ rp_calls' = <<>>
    /\ UNCHANGED <<not_rp_vars, rp_dry_run, rp_total, rp_idx, rp_reviews, rp_successes>>

ParserNext ==
    \/ ListRecipes(MaxRecipes)
    \/ GetRecipe
    \/ ParseStrategy(MaxLines)
    \/ NormalizeItem
    \/ CommitRecipe
    \/ FinishParser

NoReport == [mode |-> "none"]

\* no cleanup engine runs
cl_Idle ==
    /\ cl_engine = "none" /\ cl_apply = FALSE /\ cl_dry_run = FALSE /\ cl_max_actions = 1
    /\ cl_config_file = <<>> /\ cl_remote = {} /\ cl_merged_away = {} /\ cl_recipes = <<>>
    /\ cl_allow_fuzzy = FALSE
    /\ cl_checkpoint_file = {} /\ cl_run = "none" /\ cl_pc = "idle"
    /\ cl_plan = <<>> /\ cl_checkpoint = {} /\ cl_merged_source_ids = {} /\ cl_idx = 1
    /\ cl_applied = 0 /\ cl_failed = 0 /\ cl_skipped_checkpoint = 0
    /\ cl_attempted = <<>> /\ cl_created = <<>> /\ cl_unmapped = {}
    /\ cl_fuzzy_candidates = {}
    /\ cl_report = NoReport /\ cl_calls = <<>>

\* self.stats as __init__ and reset_stats leave it
StatNames ==
    {"query_retry_warnings", "query_failures", "excluded_tag_candidates", "cached_skipped",
     "batch_parse_failures", "fallback_batches", "per_recipe_fallback_attempts",
     "per_recipe_no_classification", "unknown_slug_count", "model_missing_entry_count",
     "recipes_updated", "recipes_planned", "recipes_no_change", "update_failures",
     "categories_added", "tags_added"}

ZeroStats == [key \in StatNames |-> 0]

\* a dict with no key
EmptyDict == [key \in {} |-> <<>>]

\* the threads of the executor
Workers == {1, 2}

\* no eta_reporter thread has been started
NoReporter == [pc |-> "none", last_done |-> -1]

\* a thread that has not been given a batch
IdleWorker ==
    [pc |-> "idle", b |-> 0, batch |-> <<>>, skipped |-> <<>>, parsed |-> <<>>,
     tag_map |-> EmptyDict, i |-> 1, log |-> <<>>]

\* the classification engine does not run
cat_Idle ==
    /\ cat_pc = "idle" /\ cat_dry_run = FALSE /\ cat_replace_existing = FALSE
    /\ cat_target_mode = "missing-either" /\ cat_batch_size = 1 /\ cat_max_workers = 1
    /\ cat_query_retries = 1 /\ cat_recipes = <<>> /\ cat_batches = <<>> /\ cat_queue = <<>>
    /\ cat_takes = <<>> /\ cat_worker = [w \in Workers |-> IdleWorker]
    /\ cat_cache = EmptyDict /\ cat_cache_file = EmptyDict /\ cat_stats = ZeroStats
    /\ cat_progress = [done |-> 0, total |-> 0] /\ cat_patches = {}
    /\ cat_cache_lock = 0
    /\ cat_stop_event = FALSE /\ cat_reporter = NoReporter

-----------------------------------------------------------------------------
(* plugin_server.py: the companion server before any request *)

Requests == 1..MaxRequests

\* start_dry_run returning None
NoSnapshot == [run_id |-> 0, status |-> "none"]

\* the run controller PluginHTTPServer.__init__ creates
IdleController == [run_id |-> 0, status |-> "idle"]

NoResponse == [code |-> 0, error |-> "", snapshot |-> NoSnapshot]

\* a request do_POST has not been called for; found is the status
\* start_dry_run met, "" before the call
NewRequest == [pc |-> "new", snapshot |-> NoSnapshot, found |-> "", response |-> NoResponse]

NoWorker == [pc |-> "none", run_id |-> 0]

srv_Idle ==
    /\ srv_controller = IdleController
    /\ srv_request = [r \in Requests |-> NewRequest]
    /\ srv_worker = [r \in Requests |-> NoWorker]

\* no response yet
NoHttpResponse == [status_code |-> 0, retry_after |-> FALSE]

http_Idle ==
    /\ http_pc = "idle" /\ http_method = "" /\ http_retries = 0 /\ http_retry_class = TRUE
    /\ http_remaining = 0 /\ http_sent = 0 /\ http_response = NoHttpResponse

pl_Idle ==
    /\ pl_pc = "start" /\ pl_stages = <<>> /\ pl_continue_on_error = FALSE
    /\ pl_results = <<>> /\ pl_calls = <<>>

js_Idle == js_pc = "call" /\ js_text = <<>> /\ js_result = NoneV

\* counters of safe_query_with_retry
NoQueryStats == [query_retry_warnings |-> 0, query_failures |-> 0]

sq_Idle ==
    /\ sq_pc = "loop" /\ sq_query_retries = 1 /\ sq_attempt = 0 /\ sq_log = <<>>
    /\ sq_stats = NoQueryStats /\ sq_result = "unset"

mg_Idle ==
    /\ mg_pc = "loop" /\ mg_route = "" /\ mg_next = 1 /\ mg_sent = <<>>
    /\ mg_last_exc = [candidate |-> 0, outcome |-> ""] /\ mg_result = NoneV

\* the parts of the toolkit a specification leaves alone
tools_Idle == http_Idle /\ pl_Idle /\ js_Idle /\ sq_Idle /\ mg_Idle

ParserInit == rp_Init /\ cl_Idle /\ cat_Idle /\ srv_Idle /\ tools_Idle

SpecParser == ParserInit /\ [][ParserNext]_vars

-----------------------------------------------------------------------------
(* Properties of the parsing pipeline *)

MutatingParserOps == {"create_food", "patch_recipe_ingredients"}

PatchCalls == {i \in 1..Len(rp_calls) : rp_calls[i].op = "patch_recipe_ingredients"}

\* C1: with dry-run set, run_parser issues no mutating remote call (no recipe
\* PATCH, no food-creation POST); an accepted recipe is only counted as parsed.
C1_DryRunIssuesNoMutation ==
    rp_dry_run => \A i \in 1..Len(rp_calls) : rp_calls[i].op \notin MutatingParserOps

\* A blank ingredient in the words of the specification: no note, zero
\* quantity, no food, no unit.
NoNote(ingredient) == ingredient.note = NoneV \/ Strip(ingredient.note) = <<>>

BlankIngredient(ingredient) ==
    /\ NoNote(ingredient)
    /\ _quantity_value(ingredient.quantity) = 0
    /\ ingredient.food = NoEntity
    /\ ingredient.unit = NoEntity

\* C4: the ingredient list run_parser writes back holds no blank ingredient.
C4_NoBlankIngredientWritten ==
    \A i \in PatchCalls :
        \A k \in 1..Len(rp_calls[i].ingredients) :
            ~BlankIngredient(rp_calls[i].ingredients[k])

\* A suspicious line in the words of the specification.
SaysToTaste(ingredient) ==
    ingredient.note # NoneV /\ Contains(Lower(ingredient.note), TO_TASTE)

ZeroQuantityWithUnit(ingredient) ==
    /\ _quantity_value(ingredient.quantity) = 0
    /\ ingredient.unit # NoEntity
    /\ _entity_name(ingredient.unit) \notin ZERO_QTY_ALLOWED_UNITS
    /\ ~SaysToTaste(ingredient)

NoFoodNoNote(ingredient) == ingredient.food = NoEntity /\ NoNote(ingredient)

SuspiciousLine(ingredient) == ZeroQuantityWithUnit(ingredient) \/ NoFoodNoNote(ingredient)

\* C5: a recipe with a suspicious normalized line is never written: no PATCH
\* carries a line with zero quantity and a unit outside the allow-list whose
\* note does not say "to taste", nor a line with no food and no note.
C5_NoSuspiciousLineWritten ==
    \A i \in PatchCalls :
        \A k \in 1..Len(rp_calls[i].ingredients) :
            ~SuspiciousLine(rp_calls[i].ingredients[k])

-----------------------------------------------------------------------------
(* Name normalization and ordering of texts (foods, units, tools managers) *)

\* Characters in code-point order, for the comparison of texts by sorted()
CharOrder == <<"\t", "\n", " ", "1", "2", "A", "B", "T", "a", "b", "c", "g", "p", "s",
               "t", "x", "FULLWIDTH-a">>

CharRanks ==
    [c \in {CharOrder[i] : i \in 1..Len(CharOrder)} |->
        CHOOSE i \in 1..Len(CharOrder) : CharOrder[i] = c]

CharRank(c) == CharRanks[c]

\* s < t for texts, as Python compares str
RECURSIVE TextLess(_, _)
TextLess(s, t) ==
    IF t = <<>> THEN FALSE
    ELSE IF s = <<>> THEN TRUE
    ELSE IF Head(s) = Head(t) THEN TextLess(Tail(s), Tail(t))
    ELSE CharRank(Head(s)) < CharRank(Head(t))

\* unicodedata.normalize("NFKC", text): a compatibility character becomes its
\* plain form (here the fullwidth letter a)
NFKC(s) == [i \in 1..Len(s) |-> IF s[i] = "FULLWIDTH-a" THEN "a" ELSE s[i]]

\* normalize_name: NFKC, strip, casefold, split on whitespace, join with " "
normalize_name(name) == CollapseWhitespace(Lower(Strip(NFKC(name))))

\* sorted(): the members of a set in ascending order of a strict total order
SortSet(S, Less(_, _)) ==
    LET before == [x \in S |-> Cardinality({y \in S : Less(y, x)})]
    IN  [i \in 1..Cardinality(S) |-> CHOOSE x \in S : before[x] = i - 1]

Range(seq) == {seq[i] : i \in 1..Len(seq)}

-----------------------------------------------------------------------------
(* foods_manager.py: the merge plan.  An id is a one-digit text, modelled by *)
(* its digit; str comparison of such ids is the comparison of the digits.    *)

\* build_food_usage: recipes is a sequence of recipes, each the sequence of
\* the food ids its ingredients refer to
RECURSIVE CountRefs(_, _)
CountRefs(refs, id) ==
    IF refs = <<>> THEN 0
    ELSE (IF Head(refs) = id THEN 1 ELSE 0) + CountRefs(Tail(refs), id)

RECURSIVE build_food_usage(_, _)
build_food_usage(recipes, id) ==
    IF recipes = <<>> THEN 0
    ELSE CountRefs(Head(recipes), id) + build_food_usage(Tail(recipes), id)

\* build_duplicate_groups: the keys (group id, normalized name) with more than
\* one food, each with its members
FoodKey_without_group(food) == <<<<>>, normalize_name(food.name)>>

FoodKey(food) == <<food.groupId, normalize_name(food.name)>>

build_duplicate_groups(foods) ==
    LET named == {f \in foods : Strip(f.name) # <<>>}
        key == [f \in named |-> FoodKey(f)]
        usable == {f \in named : key[f][2] # <<>>}
    IN  {{f \in usable : key[f] = key[g]} :
            g \in {f \in usable : \E h \in usable : h # f /\ key[h] = key[f]}}

\* a faulty choose_canonical: the lowest id, whatever the usage
choose_canonical_by_id_only(candidates, recipes) ==
    CHOOSE c \in candidates : \A d \in candidates \ {c} : c.id < d.id

\* choose_canonical: highest usage first, then lowest id
choose_canonical(candidates, recipes) ==
    LET usage == [c \in candidates |-> build_food_usage(recipes, c.id)]
    IN  CHOOSE c \in candidates :
            \A d \in candidates \ {c} :
                \/ usage[c] > usage[d]
                \/ usage[c] = usage[d] /\ c.id < d.id

FoodMergeAction(source, target, recipes) ==
    [source_id |-> source.id, source_name |-> source.name,
     target_id |-> target.id, target_name |-> target.name,
     group_id |-> source.groupId, normalized_name |-> normalize_name(source.name),
     source_usage |-> build_food_usage(recipes, source.id),
     target_usage |-> build_food_usage(recipes, target.id)]

\* the sort key of build_merge_plan: (normalized_name, group_id, source_id)
FoodActionLess(a, b) ==
    \/ TextLess(a.normalized_name, b.normalized_name)
    \/ /\ a.normalized_name = b.normalized_name
       /\ \/ TextLess(a.group_id, b.group_id)
          \/ a.group_id = b.group_id /\ a.source_id < b.source_id

build_merge_plan(foods, recipes) ==
    LET groups == build_duplicate_groups(foods)
        canonical == [g \in groups |-> choose_canonical(g, recipes)]
        actions == UNION { {FoodMergeAction(item, canonical[g], recipes) :
                               item \in {f \in g : f.id # canonical[g].id}} : g \in groups }
    IN  SortSet(actions, FoodActionLess)

\* `if ratio >= 0.92`, in hundredths
FUZZY_RATIO_PERCENT == 92

\* difflib: the blocks a[i..i+k-1] = b[j..j+k-1] inside a[alo..ahi], b[blo..bhi]
CommonBlocks(a, b, alo, ahi, blo, bhi) ==
    {m \in (alo..ahi) \X (blo..bhi) \X (1..(ahi - alo + 1)) :
        /\ m[1] + m[3] - 1 <= ahi /\ m[2] + m[3] - 1 <= bhi
        /\ \A d \in 0..(m[3] - 1) : a[m[1] + d] = b[m[2] + d]}

\* SequenceMatcher.find_longest_match: the longest block, the earliest in a
\* and then the earliest in b among the longest
find_longest_match(a, b, alo, ahi, blo, bhi) ==
    LET blocks == CommonBlocks(a, b, alo, ahi, blo, bhi)
    IN  IF blocks = {} THEN <<alo, blo, 0>>
        ELSE CHOOSE m \in blocks :
                \A n \in blocks \ {m} :
                   \/ m[3] > n[3]
                   \/ m[3] = n[3] /\ m[1] < n[1]
                   \/ m[3] = n[3] /\ m[1] = n[1] /\ m[2] < n[2]

\* SequenceMatcher.get_matching_blocks: the total size of the blocks
RECURSIVE MatchedSize(_, _, _, _, _, _)
MatchedSize(a, b, alo, ahi, blo, bhi) ==
    IF alo > ahi \/ blo > bhi THEN 0
    ELSE LET m == find_longest_match(a, b, alo, ahi, blo, bhi)
         IN  IF m[3] = 0 THEN 0
             ELSE m[3] + MatchedSize(a, b, alo, m[1] - 1, blo, m[2] - 1)
                       + MatchedSize(a, b, m[1] + m[3], ahi, m[2] + m[3], bhi)

\* SequenceMatcher(a, b).ratio() = 2.0 * matches / (len(a) + len(b)), as a fraction
SequenceRatio(a, b) ==
    [num |-> 2 * MatchedSize(a, b, 1, Len(a), 1, Len(b)), den |-> Len(a) + Len(b)]

\* `if ratio >= 0.92`
IsFuzzyMatch(ratio) == 100 * ratio.num >= FUZZY_RATIO_PERCENT * ratio.den

\* build_fuzzy_candidates: the pairs of foods of one group, in the order of
\* the list, whose normalized names differ and are similar
build_fuzzy_candidates(foods) ==
    IF ~cl_allow_fuzzy THEN {}
    ELSE LET named == {f \in foods : Strip(f.name) # <<>>}
             norm == [f \in named |-> normalize_name(f.name)]
         IN  {[group_id |-> p[1].groupId,
               food_a_id |-> p[1].id, food_a_name |-> p[1].name,
               food_b_id |-> p[2].id, food_b_name |-> p[2].name,
               similarity |-> SequenceRatio(norm[p[1]], norm[p[2]])] :
                 p \in {q \in named \X named :
                          /\ q[1].groupId = q[2].groupId /\ q[1].id < q[2].id
                          /\ norm[q[1]] # <<>> /\ norm[q[2]] # <<>>
                          /\ norm[q[1]] # norm[q[2]]
                          /\ IsFuzzyMatch(SequenceRatio(norm[q[1]], norm[q[2]]))}}

-----------------------------------------------------------------------------
(* units_manager.py: alias file and merge plan *)

\* An alias file is a sequence of entries [canonical, aliases]
AliasEntry(canonical, aliases) == [canonical |-> canonical, aliases |-> aliases]

\* the (alias_norm, canonical_norm) pairs of the file, blank aliases skipped
AliasPairs(raw) ==
    UNION { {<<normalize_name(Strip(raw[i].aliases[k])), normalize_name(Strip(raw[i].canonical))>> :
                k \in {j \in 1..Len(raw[i].aliases) : Strip(raw[i].aliases[j]) # <<>>}} :
            i \in 1..Len(raw) }

\* canonical_display: the first display name of each canonical norm, in the
\* order of the file
RECURSIVE CanonicalDisplay(_, _)
CanonicalDisplay(raw, seen) ==
    IF raw = <<>> THEN <<>>
    ELSE LET display == Strip(Head(raw).canonical)
             norm == normalize_name(display)
         IN  IF norm \in seen THEN CanonicalDisplay(Tail(raw), seen)
             ELSE <<[norm |-> norm, display |-> display]>>
                  \o CanonicalDisplay(Tail(raw), seen \cup {norm})

\* a faulty load_aliases: an alias with two canonicals is let through
load_aliases_without_conflict_test(raw) ==
    IF \E i \in 1..Len(raw) : Strip(raw[i].canonical) = <<>>
    THEN [raised |-> TRUE, canonical_display |-> <<>>, alias_to_canonical |-> {}]
    ELSE [raised |-> FALSE, canonical_display |-> CanonicalDisplay(raw, {}),
          alias_to_canonical |-> AliasPairs(raw)]

\* load_aliases: raises on an entry without canonical name and on an alias
\* mapped to two canonicals
load_aliases(raw) ==
    LET pairs == AliasPairs(raw)
        blank_canonical == \E i \in 1..Len(raw) : Strip(raw[i].canonical) = <<>>
        conflict == \E p \in pairs, q \in pairs : p[1] = q[1] /\ p[2] # q[2]
    IN  IF blank_canonical \/ conflict
        THEN [raised |-> TRUE, canonical_display |-> <<>>, alias_to_canonical |-> {}]
        ELSE [raised |-> FALSE, canonical_display |-> CanonicalDisplay(raw, {}),
              alias_to_canonical |-> pairs]

UsableUnits(units) ==
    {u \in units : Strip(u.name) # <<>> /\ normalize_name(Strip(u.name)) # <<>>}

\* units_by_norm: normalized name -> the units of that name
units_by_norm(units) ==
    LET usable == UsableUnits(units)
        norm == [u \in usable |-> normalize_name(Strip(u.name))]
    IN  [n \in {norm[u] : u \in usable} |-> {u \in usable : norm[u] = n}]

\* sorted(ids)[0]
LowestId(items) == CHOOSE i \in {u.id : u \in items} : \A u \in items : i <= u.id

NoId == 0

\* a faulty canonical_id_by_norm: the created canonicals are not recorded
canonical_id_by_norm_without_created(by_norm, created, norm) ==
    IF norm \in DOMAIN by_norm THEN LowestId(by_norm[norm]) ELSE NoId

\* canonical_id_by_norm: an existing canonical by lowest id, else the id
\* returned by its creation (created maps canonical norms to ids), else the
\* lowest id of the units of that name
canonical_id_by_norm(by_norm, created, norm) ==
    IF norm \in DOMAIN by_norm THEN LowestId(by_norm[norm])
    ELSE IF norm \in DOMAIN created THEN created[norm]
    ELSE NoId

UnitMergeAction(source, target_id, target_name, reason) ==
    [source_id |-> source.id, source_name |-> source.name,
     target_id |-> target_id, target_name |-> target_name, reason |-> reason]

\* "Exact duplicate names."
ExactDuplicateActions(by_norm, created) ==
    UNION { LET items == by_norm[norm]
                target_id == canonical_id_by_norm(by_norm, created, norm)
                target_name == (CHOOSE u \in items : u.id = target_id).name
            IN  {UnitMergeAction(item, target_id, target_name, "exact_duplicate") :
                    item \in {u \in items : u.id # target_id}} :
            norm \in {n \in DOMAIN by_norm : Cardinality(by_norm[n]) > 1} }

DisplayOf(canonical_display, norm) ==
    IF \E i \in 1..Len(canonical_display) : canonical_display[i].norm = norm
    THEN canonical_display[CHOOSE i \in 1..Len(canonical_display) :
                               canonical_display[i].norm = norm].display
    ELSE <<>>

\* "Alias-driven merges."
AliasActions(by_norm, created, loaded) ==
    UNION { LET target_id == canonical_id_by_norm(by_norm, created, pair[2])
                target_name == DisplayOf(loaded.canonical_display, pair[2])
            IN  IF target_id = NoId \/ pair[1] \notin DOMAIN by_norm THEN {}
                ELSE {UnitMergeAction(item, target_id,
                                      IF target_name # <<>> THEN target_name ELSE item.name,
                                      "alias_map") :
                         item \in {u \in by_norm[pair[1]] : u.id # target_id}} :
            pair \in loaded.alias_to_canonical }

\* a faulty dedup: the first action generated for a source is kept
RECURSIVE DedupActions_first_wins(_, _)
DedupActions_first_wins(actions, dedup) ==
    IF actions = <<>> THEN dedup
    ELSE LET action == Head(actions)
             sid == action.source_id
         IN  IF sid \notin DOMAIN dedup
             THEN DedupActions_first_wins(Tail(actions), [s \in DOMAIN dedup \cup {sid} |->
                                                 IF s = sid THEN action ELSE dedup[s]])
             ELSE DedupActions_first_wins(Tail(actions), dedup)

\* "Deduplicate actions by source, preferring alias_map": dedup maps a source
\* id to its action
RECURSIVE DedupActions(_, _)
DedupActions(actions, dedup) ==
    IF actions = <<>> THEN dedup
    ELSE LET action == Head(actions)
             sid == action.source_id
         IN  IF sid \notin DOMAIN dedup
             THEN DedupActions(Tail(actions), [s \in DOMAIN dedup \cup {sid} |->
                                                 IF s = sid THEN action ELSE dedup[s]])
             ELSE IF dedup[sid].reason # "alias_map" /\ action.reason = "alias_map"
             THEN DedupActions(Tail(actions), [dedup EXCEPT ![sid] = action])
             ELSE DedupActions(Tail(actions), dedup)

EmptyMap == [x \in {} |-> {}]

\* the sort key of the units plan: (reason, source_name, source_id)
UnitActionLess(a, b) ==
    \/ a.reason = "alias_map" /\ b.reason = "exact_duplicate"
    \/ /\ a.reason = b.reason
       /\ \/ TextLess(a.source_name, b.source_name)
          \/ a.source_name = b.source_name /\ a.source_id < b.source_id

BySourceId(a, b) == a.source_id < b.source_id

UnitsPlan(by_norm, created, loaded) ==
    LET actions == SortSet(ExactDuplicateActions(by_norm, created), BySourceId)
                   \o SortSet(AliasActions(by_norm, created, loaded), BySourceId)
        dedup == DedupActions(actions, EmptyMap)
    IN  SortSet({dedup[s] : s \in DOMAIN dedup}, UnitActionLess)

\* unmapped_units: the names of the units whose norm is neither a canonical
\* nor an alias of the file
unmapped_units(by_norm, loaded) ==
    LET canonicals == {loaded.canonical_display[i].norm : i \in 1..Len(loaded.canonical_display)}
        aliases == {pair[1] : pair \in loaded.alias_to_canonical}
    IN  UNION { {u.name : u \in by_norm[n]} : n \in DOMAIN by_norm \ (canonicals \cup aliases) }

-----------------------------------------------------------------------------
(* tools_manager.py: tools file and merge plan *)

RECURSIVE DedupNames(_, _)
DedupNames(names, seen) ==
    IF names = <<>> THEN <<>>
    ELSE IF normalize_name(Head(names)) \in seen THEN DedupNames(Tail(names), seen)
    ELSE <<Head(names)>> \o DedupNames(Tail(names), seen \cup {normalize_name(Head(names))})

NonBlank(text) == text # <<>>

StripAll(raw) == [i \in 1..Len(raw) |-> Strip(raw[i])]

\* load_tool_names: the stripped non-blank names, first of each norm kept;
\* raises when no name is left
load_tool_names(raw) ==
    LET names == SelectSeq(StripAll(raw), NonBlank)
    IN  IF names = <<>> THEN [raised |-> TRUE, names |-> <<>>]
        ELSE [raised |-> FALSE, names |-> DedupNames(names, {})]

ToolMergeAction(source, target) ==
    [source_id |-> source.id, source_name |-> source.name,
     target_id |-> target.id, target_name |-> target.name]

\* the sort key of the tools plan: (source_name, source_id)
ToolActionLess(a, b) ==
    \/ TextLess(a.source_name, b.source_name)
    \/ a.source_name = b.source_name /\ a.source_id < b.source_id

\* build_duplicate_actions: in each group of one normalized name the lowest
\* id is the target of every other member
build_duplicate_actions(tools) ==
    LET named == {t \in tools : Strip(t.name) # <<>>}
        norm == [t \in named |-> normalize_name(Strip(t.name))]
        groups == {{t \in named : norm[t] = norm[u]} : u \in named}
        actions == UNION { LET target == CHOOSE t \in items : t.id = LowestId(items)
                           IN  {ToolMergeAction(item, target) :
                                   item \in {t \in items : t.id # target.id}} :
                           items \in {g \in groups : Cardinality(g) > 1} }
    IN  SortSet(actions, ToolActionLess)

-----------------------------------------------------------------------------
(* run() of FoodsCleanupManager, UnitsCleanupManager and ToolsSyncManager.   *)
(* One behaviour runs one engine at most twice with the same flags and the   *)
(* same checkpoint file.                                                     *)

N_Ab == <<"A", " ", "b">>
N_ab_wide == <<" ", "FULLWIDTH-a", "\t", " ", "B">>
N_c == <<"c">>
N_Tsp == <<"T", "s", "p">>
N_t == <<"t">>
N_T_spaced == <<" ", "T", " ">>
N_x == <<"x">>
N_X == <<"x", " ">>
G1 == <<"g", "1">>
G2 == <<"g", "2">>

RemoteEntity(id, name, groupId) == [id |-> id, name |-> name, groupId |-> groupId]

FoodProfiles == {[name |-> N_Ab, groupId |-> G1], [name |-> N_ab_wide, groupId |-> G1],
                 [name |-> N_Ab, groupId |-> G2]}
UnitProfiles == {[name |-> N_t, groupId |-> G1], [name |-> N_Tsp, groupId |-> G1],
                 [name |-> N_x, groupId |-> G1]}
ToolProfiles == {[name |-> N_Ab, groupId |-> G1], [name |-> N_ab_wide, groupId |-> G1],
                 [name |-> N_c, groupId |-> G1]}

\* recipes as get_recipes returns them
RecipeFoodRefs == { <<>>, << <<2>> >>, << <<3, 3>>, <<1>> >> }

\* alias files: one canonical; an alias with two canonicals; a canonical that
\* is itself an alias of another canonical
AliasFiles == { << AliasEntry(N_Tsp, <<N_t>>) >>,
                << AliasEntry(N_Tsp, <<N_t>>), AliasEntry(N_x, <<N_T_spaced>>) >>,
                << AliasEntry(N_Tsp, <<N_t, <<" ">> >>), AliasEntry(N_t, <<N_x>>) >> }

\* tools files: one name; names repeating up to normalization; no valid name
ToolsFiles == { <<N_c>>, <<N_Ab, N_x, N_X>>, << <<" ">> >> }

\* executable = self.apply and not self.dry_run
executable_despite_dry_run == cl_apply

executable == cl_apply /\ ~cl_dry_run

cl_locals == <<cl_plan, cl_checkpoint, cl_merged_source_ids, cl_idx, cl_applied, cl_failed,
               cl_skipped_checkpoint, cl_attempted, cl_created, cl_unmapped,
               cl_fuzzy_candidates>>

cl_config == <<cl_engine, cl_apply, cl_dry_run, cl_max_actions, cl_config_file, cl_recipes,
               cl_allow_fuzzy>>

Profiles(engine) ==
    IF engine = "foods" THEN FoodProfiles
    ELSE IF engine = "units" THEN UnitProfiles ELSE ToolProfiles

ConfigFiles(engine) ==
    IF engine = "units" THEN AliasFiles
    ELSE IF engine = "tools" THEN ToolsFiles ELSE {<<>>}

\* checkpoint files found by the first run: absent or empty, or naming ids
InitialCheckpoints == SUBSET {2, 3}

\* the state before the first run: any remote entity list, any flags, any of
\* the checkpoint files
cl_Init ==
    /\ cl_engine \in {"foods", "units", "tools"}
    /\ cl_allow_fuzzy = FALSE
    /\ cl_apply \in BOOLEAN /\ cl_dry_run \in BOOLEAN
    /\ cl_max_actions \in (IF cl_apply /\ ~cl_dry_run THEN {1, MaxCap} ELSE {1})
    /\ cl_config_file \in ConfigFiles(cl_engine)
    /\ \E profile \in [1..MaxEntities -> Profiles(cl_engine)] :
          cl_remote = {RemoteEntity(i, profile[i].name, profile[i].groupId) : i \in 1..MaxEntities}
    /\ cl_merged_away = {}
    /\ cl_recipes \in (IF cl_engine = "foods" THEN RecipeFoodRefs ELSE {<<>>})
    /\ cl_checkpoint_file \in InitialCheckpoints
    /\ cl_run = "none" /\ cl_pc = "start"
    /\ cl_plan = <<>> /\ cl_checkpoint = {} /\ cl_merged_source_ids = {} /\ cl_idx = 1
    /\ cl_applied = 0 /\ cl_failed = 0 /\ cl_skipped_checkpoint = 0
    /\ cl_attempted = <<>> /\ cl_created = <<>> /\ cl_unmapped = {}
    /\ cl_fuzzy_candidates = {}
    /\ cl_report = NoReport /\ cl_calls = <<>>

StartEnabled == cl_pc \in {"start", "done", "raised"} /\ cl_run # "second"

NextRun == IF cl_run = "none" THEN "first" ELSE "second"

\* what a list call returns: after a merge the server may still list the source
StaleChoices == IF cl_merged_away = {} THEN {FALSE} ELSE BOOLEAN

Listing(stale) == IF stale THEN cl_remote ELSE {e \in cl_remote : e.id \notin cl_merged_away}

MaxId(entities) == CHOOSE i \in {e.id : e \in entities} : \A e \in entities : e.id <= i

Call(op, source, target, ok) ==
    [op |-> op, run |-> NextRun, source_id |-> source, target_id |-> target, ok |-> ok]

\* run() raises: nothing of the run is kept
Raise(calls, remote) ==
    /\ cl_pc' = "raised"
    /\ cl_run' = NextRun
    /\ cl_calls' = cl_calls \o calls
    /\ cl_remote' = remote
    /\ cl_plan' = <<>> /\ cl_checkpoint' = {} /\ cl_merged_source_ids' = {} /\ cl_idx' = 1
    /\ cl_applied' = 0 /\ cl_failed' = 0 /\ cl_skipped_checkpoint' = 0
    /\ cl_attempted' = <<>> /\ cl_created' = <<>> /\ cl_unmapped' = {}
    /\ cl_fuzzy_candidates' = {}
    /\ UNCHANGED <<cl_config, cl_merged_away, cl_checkpoint_file, cl_report, not_cl_vars>>

\* load_checkpoint: the merged_source_ids of the checkpoint file, empty when
\* the file is absent
load_checkpoint_ignoring_file == {}

load_checkpoint == cl_checkpoint_file

\* save_checkpoint: the file holds exactly the given ids
save_checkpoint(merged_source_ids) == cl_checkpoint_file' = merged_source_ids

\* the loop over the plan starts
EnterLoopWith(plan, calls, remote, created, failed, unmapped, fuzzy) ==
    /\ cl_pc' = "loop"
    /\ cl_run' = NextRun
    /\ cl_calls' = cl_calls \o calls
    /\ cl_remote' = remote
    /\ cl_plan' = plan
    /\ cl_checkpoint' = load_checkpoint
    /\ cl_merged_source_ids' = load_checkpoint
    /\ cl_idx' = 1
    /\ cl_applied' = 0 /\ cl_failed' = failed /\ cl_skipped_checkpoint' = 0
    /\ cl_attempted' = <<>> /\ cl_created' = created /\ cl_unmapped' = unmapped
    /\ cl_fuzzy_candidates' = fuzzy
    /\ UNCHANGED <<cl_config, cl_merged_away, cl_checkpoint_file, cl_report, not_cl_vars>>

\* units and tools run(): the loop over the plan starts
EnterLoop(plan, calls, remote, created, failed, unmapped) ==
    EnterLoopWith(plan, calls, remote, created, failed, unmapped, {})

\* foods run(): list the foods and the recipes, build the plan and the fuzzy
\* candidates, load the checkpoint
FoodsStart ==
    /\ cl_engine = "foods" /\ StartEnabled
    /\ \E stale \in StaleChoices :
          EnterLoopWith(build_merge_plan(Listing(stale), cl_recipes),
                        <<Call("list_foods", NoId, NoId, TRUE),
                          Call("get_recipes", NoId, NoId, TRUE)>>,
                        cl_remote, <<>>, 0, {}, build_fuzzy_candidates(Listing(stale)))

CreateUnitOutcomes == {"created", "no_id", "raised"}

\* the creation loop of units run() over the canonicals missing remotely,
\* then the plan.  outcomes[i] is what create_unit does for missing[i].
UnitsPrepare(loaded, by_norm, missing, outcomes) ==
    LET raising == {i \in 1..Len(missing) : outcomes[i] = "raised"}
        stop == IF raising = {} THEN Len(missing) + 1
                ELSE CHOOSE i \in raising : \A j \in raising : i <= j
        made == {i \in 1..Len(missing) : i < stop /\ outcomes[i] = "created"}
        idOf(i) == MaxId(cl_remote) + Cardinality({j \in made : j <= i})
        created == [norm \in {missing[i].norm : i \in made} |->
                       idOf(CHOOSE i \in made : missing[i].norm = norm)]
        new_units == {RemoteEntity(idOf(i), missing[i].display, G1) : i \in made}
        create_calls == [i \in 1..(IF stop <= Len(missing) THEN stop ELSE Len(missing)) |->
                           Call("create_unit", NoId, IF i \in made THEN idOf(i) ELSE NoId,
                                outcomes[i] # "raised")]
        IsMade(i) == i \in made
        made_seq == SelectSeq([i \in 1..Len(missing) |-> i], IsMade)
        created_canonicals == [k \in 1..Len(made_seq) |->
                                 [id |-> idOf(made_seq[k]), name |-> missing[made_seq[k]].display,
                                  status |-> "created"]]
        planned == [i \in 1..Len(missing) |->
                      [id |-> NoId, name |-> missing[i].display, status |-> "planned_create"]]
        listed == <<Call("list_units", NoId, NoId, TRUE)>>
    IN  IF ~executable
        THEN EnterLoop(UnitsPlan(by_norm, EmptyMap, loaded), listed, cl_remote, planned, 0,
                       unmapped_units(by_norm, loaded))
        ELSE IF stop <= Len(missing)
        THEN Raise(listed \o create_calls, cl_remote \cup new_units)
        ELSE EnterLoop(UnitsPlan(by_norm, created, loaded), listed \o create_calls,
                       cl_remote \cup new_units, created_canonicals, 0,
                       unmapped_units(by_norm, loaded))

\* units run(): load the aliases, list the units, create the missing
\* canonicals, build the plan
UnitsStart ==
    /\ cl_engine = "units" /\ StartEnabled
    /\ LET loaded == load_aliases(cl_config_file)
       IN  IF loaded.raised THEN Raise(<<>>, cl_remote)
           ELSE \E stale \in StaleChoices :
                      LET by_norm == units_by_norm(Listing(stale))
                          IsMissing(e) == e.norm \notin DOMAIN by_norm
                          missing == SelectSeq(loaded.canonical_display, IsMissing)
                      IN  \E outcomes \in [1..Len(missing) ->
                                               IF executable THEN CreateUnitOutcomes
                                               ELSE {"planned_create"}] :
                             UnitsPrepare(loaded, by_norm, missing, outcomes)

\* the creation loop of tools run() over the desired names, then the second
\* listing and the plan.  exists[i] tells whether the i-th desired name is
\* held remotely; outcomes[i] whether create_tool succeeds for it.
ToolsPrepare(desired, existing, exists, outcomes) ==
    LET made == {i \in DOMAIN outcomes : outcomes[i]}
        idOf(i) == MaxId(cl_remote) + Cardinality({j \in made : j <= i})
        new_tools == {RemoteEntity(idOf(i), desired[i], G1) : i \in made}
        create_actions == [i \in 1..Len(desired) |->
                             [name |-> desired[i],
                              status |-> IF exists[i] THEN "exists"
                                         ELSE IF ~executable THEN "planned"
                                         ELSE IF outcomes[i] THEN "created" ELSE "failed"]]
        IsCall(i) == i \in DOMAIN outcomes
        call_seq == SelectSeq([i \in 1..Len(desired) |-> i], IsCall)
        create_calls == [k \in 1..Len(call_seq) |->
                           Call("create_tool", NoId,
                                IF call_seq[k] \in made THEN idOf(call_seq[k]) ELSE NoId,
                                outcomes[call_seq[k]])]
        failed == Cardinality(DOMAIN outcomes \ made)
        tools == existing \cup new_tools
    IN  EnterLoop(build_duplicate_actions(tools),
                  <<Call("list_tools", NoId, NoId, TRUE)>> \o create_calls
                      \o <<Call("list_tools", NoId, NoId, TRUE)>>,
                  cl_remote \cup new_tools, create_actions, failed, {})

\* tools run(): load the desired names, list the tools, create the missing
\* ones, list again, build the plan
ToolsStart ==
    /\ cl_engine = "tools" /\ StartEnabled
    /\ LET loaded == load_tool_names(cl_config_file)
       IN  IF loaded.raised THEN Raise(<<>>, cl_remote)
           ELSE \E stale \in StaleChoices :
                   LET existing == Listing(stale)
                       existing_by_norm ==
                           {normalize_name(t.name) : t \in {u \in existing : Strip(u.name) # <<>>}}
                       exists == [i \in 1..Len(loaded.names) |->
                                    normalize_name(loaded.names[i]) \in existing_by_norm]
                       to_create == IF executable
                                    THEN {i \in 1..Len(loaded.names) : ~exists[i]} ELSE {}
                   IN  \E outcomes \in [to_create -> BOOLEAN] :
                          ToolsPrepare(loaded.names, existing, exists, outcomes)

\* entry of attempted / merge_actions; error is "" where the entry has no
\* such key
AttemptedEntry(action, status) ==
    [source_id |-> action.source_id, target_id |-> action.target_id,
     mode |-> IF executable THEN "apply" ELSE "plan", status |-> status,
     error |-> IF status = "failed" THEN RequestError ELSE ""]

MergeCall(op, action, ok) ==
    [op |-> op, run |-> cl_run, source_id |-> action.source_id,
     target_id |-> action.target_id, ok |-> ok]

\* a faulty cap: the checkpoint skips use up the budget
cap_reached_counting_skips ==
    executable /\ cl_applied + cl_skipped_checkpoint >= cl_max_actions

\* a faulty cap: every attempt uses up the budget, the failed ones too
cap_reached_counting_attempts == executable /\ Len(cl_attempted) >= cl_max_actions

\* a faulty cap: the loop stops one merge late
cap_reached_one_late == executable /\ cl_applied > cl_max_actions

\* `if executable and applied >= self.max_actions: break`
cap_reached == executable /\ cl_applied >= cl_max_actions

\* a faulty failure branch: the source of the failed merge is checkpointed
MergeFailed_checkpointed(action) ==
    /\ cl_failed' = cl_failed + 1
    /\ cl_attempted' = Append(cl_attempted, AttemptedEntry(action, "failed"))
    /\ cl_merged_source_ids' = cl_merged_source_ids \cup {action.source_id}
    /\ save_checkpoint(cl_merged_source_ids \cup {action.source_id})
    /\ UNCHANGED <<cl_applied, cl_merged_away>>

\* `except Exception as exc`: the merge call raised
MergeFailed(action) ==
    /\ cl_failed' = cl_failed + 1
    /\ cl_attempted' = Append(cl_attempted, AttemptedEntry(action, "failed"))
    /\ UNCHANGED <<cl_applied, cl_merged_source_ids, cl_checkpoint_file, cl_merged_away>>

\* one iteration of "for action in plan": checkpoint skip, cap, merge or plan
MergeLoopStep(merge_op) ==
    /\ cl_pc = "loop" /\ cl_idx <= Len(cl_plan)
    /\ LET action == cl_plan[cl_idx]
       IN  IF action.source_id \in cl_checkpoint
           THEN /\ cl_skipped_checkpoint' = cl_skipped_checkpoint + 1
                /\ cl_idx' = cl_idx + 1
                /\ UNCHANGED <<cl_pc, cl_applied, cl_failed, cl_attempted, cl_merged_source_ids,
                               cl_checkpoint_file, cl_merged_away, cl_calls>>
           ELSE IF cap_reached
           THEN /\ cl_pc' = "report"
                /\ UNCHANGED <<cl_idx, cl_skipped_checkpoint, cl_applied, cl_failed, cl_attempted,
                               cl_merged_source_ids, cl_checkpoint_file, cl_merged_away, cl_calls>>
           ELSE IF executable
           THEN \E ok \in BOOLEAN :
                   /\ cl_calls' = Append(cl_calls, MergeCall(merge_op, action, ok))
                   /\ cl_idx' = cl_idx + 1
                   /\ IF ok
                      THEN /\ cl_applied' = cl_applied + 1
                           /\ cl_merged_source_ids' = cl_merged_source_ids \cup {action.source_id}
                           /\ save_checkpoint(cl_merged_source_ids \cup {action.source_id})
                           /\ cl_merged_away' = cl_merged_away \cup {action.source_id}
                           /\ cl_attempted' = Append(cl_attempted, AttemptedEntry(action, "merged"))
                           /\ UNCHANGED cl_failed
                      ELSE MergeFailed(action)
                   /\ UNCHANGED <<cl_pc, cl_skipped_checkpoint>>
           ELSE /\ cl_attempted' = Append(cl_attempted, AttemptedEntry(action, "planned"))
                /\ cl_idx' = cl_idx + 1
                /\ UNCHANGED <<cl_pc, cl_skipped_checkpoint, cl_applied, cl_failed,
                               cl_merged_source_ids, cl_checkpoint_file, cl_merged_away, cl_calls>>
    /\ UNCHANGED <<cl_config, cl_remote, cl_run, cl_plan, cl_checkpoint, cl_created,
                   cl_unmapped, cl_fuzzy_candidates, cl_report, not_cl_vars>>

FoodsMergeStep == cl_engine = "foods" /\ MergeLoopStep("merge_food")

UnitsMergeStep == cl_engine = "units" /\ MergeLoopStep("merge_unit")

ToolsMergeStep == cl_engine = "tools" /\ MergeLoopStep("merge_tool")

CountStatus(entries, status) ==
    Cardinality({i \in 1..Len(entries) : entries[i].status = status})

\* the report built after the loop; foods and units also write it to report_file
WriteReport(created, skipped) ==
    /\ \/ cl_pc = "report"
       \/ cl_pc = "loop" /\ cl_idx > Len(cl_plan)
    /\ cl_report' = [mode |-> IF executable THEN "apply" ELSE "audit",
                     merge_candidates_total |-> Len(cl_plan),
                     actions_attempted |-> Len(cl_attempted),
                     actions_applied |-> cl_applied,
                     actions_failed |-> cl_failed,
                     checkpoint_skipped |-> cl_skipped_checkpoint,
                     created |-> created,
                     skipped |-> skipped,
                     unmapped_units |-> cl_unmapped,
                     fuzzy_candidates |-> cl_fuzzy_candidates,
                     attempted_actions |-> cl_attempted]
    /\ cl_pc' = "done"
    /\ UNCHANGED <<cl_config, cl_remote, cl_merged_away, cl_checkpoint_file, cl_run, cl_locals,
                   cl_calls, not_cl_vars>>

FoodsReport == cl_engine = "foods" /\ WriteReport(0, 0)

UnitsReport == cl_engine = "units" /\ WriteReport(Len(cl_created), 0)

ToolsReport ==
    cl_engine = "tools" /\ WriteReport(CountStatus(cl_created, "created"),
                                        CountStatus(cl_created, "exists"))

CleanupNext ==
    \/ FoodsStart
    \/ FoodsMergeStep
    \/ FoodsReport
    \/ UnitsStart
    \/ UnitsMergeStep
    \/ UnitsReport
    \/ ToolsStart
    \/ ToolsMergeStep
    \/ ToolsReport

CleanupInit == cl_Init /\ rp_Idle /\ cat_Idle /\ srv_Idle /\ tools_Idle

SpecCleanup == CleanupInit /\ [][CleanupNext]_vars

-----------------------------------------------------------------------------
(* Properties of the cleanup engines *)

MergeOps == {"merge_food", "merge_unit", "merge_tool"}
CreateOps == {"create_unit", "create_tool"}
MergeCalls == {i \in 1..Len(cl_calls) : cl_calls[i].op \in MergeOps}
ApplyMode == cl_apply /\ ~cl_dry_run
AuditMode == ~cl_apply \/ cl_dry_run

\* C2 as stated: over the two apply runs no source id gets a second merge call
C2_NoSecondMergeCall ==
    ApplyMode =>
        \A i \in MergeCalls, j \in MergeCalls :
            i # j => cl_calls[i].source_id # cl_calls[j].source_id

\* C2 (amended): over two apply runs with one checkpoint file, no merge call
\* is issued for a source id whose earlier merge call succeeded, also when the
\* remote list still holds that source, and one run issues at most one merge
\* call per source id; a source whose merge call failed may be tried again
C2_NoMergeCallAfterSuccess ==
    ApplyMode =>
        \A i \in MergeCalls, j \in MergeCalls :
            /\ (i < j /\ cl_calls[i].ok) => cl_calls[i].source_id # cl_calls[j].source_id
            /\ (i < j /\ cl_calls[i].run = cl_calls[j].run)
                  => cl_calls[i].source_id # cl_calls[j].source_id

\* the second apply run has skipped, by the checkpoint, a source that the
\* first run merged and that the remote list still holds
C2_Witness ==
    /\ ApplyMode /\ cl_run = "second" /\ cl_pc = "done"
    /\ \E i \in MergeCalls, k \in 1..Len(cl_plan) :
          /\ cl_calls[i].run = "first" /\ cl_calls[i].ok
          /\ cl_plan[k].source_id = cl_calls[i].source_id
          /\ k < cl_idx
          /\ cl_plan[k].source_id \in cl_checkpoint
    /\ \E j \in MergeCalls : cl_calls[j].run = "second"

\* C3: in audit mode (apply unset or dry-run set) a run issues no merge call
\* and no create call, leaves the remote entities and the checkpoint file as
\* they are, and reports mode audit
C3_AuditChangesNothing ==
    /\ [](AuditMode =>
            /\ \A i \in 1..Len(cl_calls) : cl_calls[i].op \notin MergeOps \cup CreateOps
            /\ cl_merged_away = {}
            /\ cl_report # NoReport => cl_report.mode = "audit")
    /\ [][AuditMode => /\ cl_checkpoint_file' = cl_checkpoint_file
                       /\ cl_remote' = cl_remote]_vars

\* an audit run with a checkpointed file has planned a merge and a creation
\* and has reported
C3_Witness ==
    /\ AuditMode /\ cl_pc = "done" /\ cl_checkpoint_file # {}
    /\ cl_skipped_checkpoint > 0
    /\ \E k \in 1..Len(cl_attempted) : cl_attempted[k].status = "planned"
    /\ \E k \in 1..Len(cl_created) : cl_created[k].status \in {"planned", "planned_create"}

-----------------------------------------------------------------------------
(* categorizer_core.py: the catalog, the recipes and the provider's answers *)

\* get_all_categories() and get_all_tags()
Dinner == [name |-> <<"D", "n">>, slug |-> "dn"]
Dessert == [name |-> <<"D", "s">>, slug |-> "ds"]
Quick == [name |-> <<"Q", "k">>, slug |-> "qk"]
AllCategories == <<Dinner, Dessert>>
AllTags == <<Quick>>

\* {c.get("name", "").strip().lower(): c for c in items if c.get("name")}:
\* the last item of a key wins
by_name(items) ==
    LET key(i) == Lower(Strip(items[i].name))
        named == {i \in 1..Len(items) : items[i].name # <<>>}
    IN  [k \in {key(i) : i \in named} |->
            items[CHOOSE i \in named : key(i) = k /\ \A j \in named : key(j) = k => j <= i]]

categories_by_name == by_name(AllCategories)
tags_by_name == by_name(AllTags)

\* names a provider returns: exact, in another case with padding, unknown
NameDinner == <<"D", "n">>
NameDessertPadded == <<" ", "d", "S">>
NameQuick == <<"Q", "k">>
NameUnknown == <<"Z">>

SlugNames == <<"r1", "r2", "r3", "r4", "r5">>
UnknownSlug == "zz"

\* what a fetched recipe has assigned
Assigned(categories, tags) == [recipeCategory |-> categories, tags |-> tags]
Assignments ==
    <<Assigned(<<>>, <<>>), Assigned(<<Dinner>>, <<Quick>>),
      Assigned(<<Dinner>>, <<>>), Assigned(<<>>, <<Quick>>)>>

Recipe(slug, assigned) ==
    [slug |-> slug, recipeCategory |-> assigned.recipeCategory, tags |-> assigned.tags]

\* the recipe lists of the model: no recipe, or MaxBatch recipes with the
\* assignments taken in turn from the p-th on
RecipeLists ==
    {[i \in 1..n |-> Recipe(SlugNames[i], Assignments[((i + p) % Len(Assignments)) + 1])] :
        n \in {0, MaxBatch}, p \in 1..Len(Assignments)}

SlugsOf(recipes) == [i \in 1..Len(recipes) |-> recipes[i].slug]

\* the cache files of the model: none, or an entry for every recipe
CacheEntry(categories, tags) == [categories |-> categories, tags |-> tags]
NamesOf(items) == [i \in 1..Len(items) |-> items[i].name]
CacheFiles(recipes) ==
    {EmptyDict,
     [slug \in Range(SlugsOf(recipes)) |->
        LET r == recipes[CHOOSE i \in 1..Len(recipes) : recipes[i].slug = slug]
        IN  CacheEntry(NamesOf(r.recipeCategory), NamesOf(r.tags))]}

\* an element of a response: an object {slug, categories, tags}, or
\* something that is not an object
Labels(categories, tags) == [categories |-> categories, tags |-> tags]
Entry(slug, labels) ==
    [dict |-> TRUE, slug |-> slug, categories |-> labels.categories, tags |-> labels.tags]
NonDictEntry == [dict |-> FALSE, slug |-> "", categories |-> <<>>, tags |-> <<>>]

LabelsFull == Labels(<<NameDinner, NameDessertPadded>>, <<NameQuick>>)
LabelsNoTags == Labels(<<NameDinner>>, <<>>)
LabelsUnknown == Labels(<<NameUnknown>>, <<NameUnknown>>)
LabelsTagsOnly == Labels(<<>>, <<NameQuick>>)

\* answers to the combined prompt of a batch: a complete entry for every
\* recipe, or such a list ending with an element that is not an object; and,
\* when rich, lists with entries without tags, with a second entry of the
\* first recipe, with recipes left out, with unknown names and with an
\* unknown slug
BatchResponses(batch, rich) ==
    LET mixed(l1, l2) ==
            [i \in 1..Len(batch) |-> Entry(batch[i].slug, IF i = 1 THEN l1 ELSE l2)]
        first(l) == <<Entry(batch[1].slug, l)>>
        unknown == <<Entry(UnknownSlug, LabelsFull)>>
    IN  {mixed(LabelsFull, LabelsFull), mixed(LabelsFull, LabelsFull) \o <<NonDictEntry>>}
        \cup (IF rich
              THEN {mixed(LabelsNoTags, LabelsFull),
                    mixed(LabelsNoTags, LabelsNoTags) \o first(LabelsNoTags),
                    first(LabelsUnknown),
                    mixed(LabelsTagsOnly, LabelsNoTags) \o unknown,
                    first(LabelsNoTags) \o <<NonDictEntry>>,
                    unknown}
              ELSE {})

\* answers to the tag prompt of ensure_tags_for_entries: tags for every
\* recipe asked about or for the first only, or an element that is not an
\* object
TagResponses(slugs) ==
    {[i \in 1..n |-> Entry(slugs[i], LabelsTagsOnly)] : n \in {1, Len(slugs)}}
        \cup {<<NonDictEntry>>}

\* answers to the three prompts of classify_single_recipe_with_fallback
SingleFound(slug) == <<Entry(slug, LabelsFull)>>
SingleUnlabelled(slug) == <<Entry(slug, Labels(<<>>, <<>>))>>
SingleNotFound == <<NonDictEntry, Entry(UnknownSlug, LabelsFull)>>
CategoriesFound(slug) == <<Entry(slug, LabelsNoTags)>>
TagsFound(slug) == <<Entry(slug, LabelsTagsOnly)>>

\* what safe_query_with_retry returns: None, a parsed value that is not a
\* list, or a parsed list
QueryNone == [kind |-> "none", entries |-> <<>>]
QueryObject == [kind |-> "object", entries |-> <<>>]
QueryList(entries) == [kind |-> "list", entries |-> entries]
QueryResults(lists) == {QueryNone} \cup {QueryList(list) : list \in lists}

\* the attempts of safe_query_with_retry that fail: all of them for None;
\* for a parsed value none or, with the combined prompt of a batch, all but
\* the last
FailedOf(result) == IF result.kind = "none" THEN cat_query_retries ELSE 0
FailedAttempts(result) == {FailedOf(result)} \cup
    (IF result.kind = "none" THEN {} ELSE {cat_query_retries - 1})

\* increment_stat
increment_stat(stats, key, amount) == [stats EXCEPT ![key] = @ + amount]

\* safe_query_with_retry: the counters it leaves
safe_query_with_retry(stats, result, failed) ==
    increment_stat(increment_stat(stats, "query_retry_warnings", failed),
                   "query_failures", IF result.kind = "none" THEN 1 ELSE 0)

-----------------------------------------------------------------------------
(* categorizer_core.py: target selection, batching, matching *)

Missing(list) == list = <<>>

MissingCategories(r) == Missing(r.recipeCategory)
MissingTags(r) == Missing(r.tags)
MissingEither(r) == Missing(r.recipeCategory) \/ Missing(r.tags)

\* a faulty variant: every recipe is a target under every policy
select_targets_all(all_recipes) == all_recipes

select_targets(all_recipes) ==
    IF cat_replace_existing THEN all_recipes
    ELSE IF cat_target_mode = "missing-categories" THEN SelectSeq(all_recipes, MissingCategories)
    ELSE IF cat_target_mode = "missing-tags" THEN SelectSeq(all_recipes, MissingTags)
    ELSE SelectSeq(all_recipes, MissingEither)

Min(a, b) == IF a < b THEN a ELSE b

\* a faulty batch_recipes: a window of `size` recipes from every position
batch_recipes_sliding(recipes, size) ==
    [k \in 1..Len(recipes) |-> SubSeq(recipes, k, Min(k + size - 1, Len(recipes)))]

\* recipes[i : i + size] for i in range(0, len(recipes), size)
batch_recipes(recipes, size) ==
    [k \in 1..((Len(recipes) + size - 1) \div size) |->
        SubSeq(recipes, (k - 1) * size + 1, Min(k * size, Len(recipes)))]

\* normalize_name_list of a list
normalize_name_list(value) == SelectSeq(StripAll(value), NonBlank)

\* parse_entry_labels
parse_entry_labels(entry) ==
    Labels(normalize_name_list(entry.categories), normalize_name_list(entry.tags))

\* append_matches of update_recipe_metadata
RECURSIVE append_matches(_, _, _, _)
append_matches(names, lookup, existing_set, target_list) ==
    IF names = <<>>
    THEN [changed |-> FALSE, added_names |-> <<>>, target_list |-> target_list]
    ELSE LET key == Lower(Strip(Head(names)))
         IN  IF key \notin DOMAIN lookup \/ lookup[key].slug \in existing_set
             THEN append_matches(Tail(names), lookup, existing_set, target_list)
             ELSE LET match == lookup[key]
                      rest == append_matches(Tail(names), lookup,
                                             existing_set \cup {match.slug},
                                             Append(target_list, match))
                  IN  [changed |-> TRUE, added_names |-> <<match.name>> \o rest.added_names,
                       target_list |-> rest.target_list]

\* a faulty set of existing slugs: always empty
ItemSlugs_empty(items) == {}

\* {c.get("slug") for c in existing_categories}
ItemSlugs(items) == {items[i].slug : i \in 1..Len(items)}

\* the shared state update_recipe_metadata reads and leaves
Shared ==
    [stats |-> cat_stats, cache |-> cat_cache, cache_file |-> cat_cache_file,
     patches |-> cat_patches, outcome |-> "none"]

\* the outcomes of requests.patch: a status code, or an exception
PatchStatuses == {"200", "500", "raised"}

\* a faulty update_recipe_metadata: no dry-run branch
update_recipe_metadata_without_dry_run(recipe, category_names, tag_names, status, shared) ==
    LET existing_categories == IF cat_replace_existing THEN <<>> ELSE recipe.recipeCategory
        existing_tags == IF cat_replace_existing THEN <<>> ELSE recipe.tags
        cats == append_matches(category_names, categories_by_name,
                               ItemSlugs(existing_categories), existing_categories)
        tags == append_matches(tag_names, tags_by_name, ItemSlugs(existing_tags), existing_tags)
        keys == (IF cats.changed THEN {"recipeCategory"} ELSE {})
                    \cup (IF tags.changed THEN {"tags"} ELSE {})
        payload == [k \in keys |->
                      IF k = "recipeCategory" THEN cats.target_list ELSE tags.target_list]
        request == [slug |-> recipe.slug, category_names |-> category_names,
                    tag_names |-> tag_names, payload |-> payload, status |-> status]
        counted(key) ==
            increment_stat(increment_stat(increment_stat(shared.stats, key, 1),
                                          "categories_added", Len(cats.added_names)),
                           "tags_added", Len(tags.added_names))
        entry == CacheEntry(NamesOf(cats.target_list), NamesOf(tags.target_list))
        cache == [slug \in DOMAIN shared.cache \cup {recipe.slug} |->
                    IF slug = recipe.slug THEN entry ELSE shared.cache[slug]]
    IN  IF ~cats.changed /\ ~tags.changed
        THEN [shared EXCEPT !.stats = increment_stat(@, "recipes_no_change", 1),
                            !.outcome = "no_change"]
        ELSE IF status = "raised"
        THEN [shared EXCEPT !.patches = @ \cup {request}, !.outcome = "raised"]
        ELSE IF status # "200"
        THEN [shared EXCEPT !.stats = increment_stat(@, "update_failures", 1),
                            !.patches = @ \cup {request}, !.outcome = "failed"]
        ELSE [shared EXCEPT !.stats = counted("recipes_updated"),
                            !.patches = @ \cup {request},
                            !.cache = cache, !.cache_file = cache,
                            !.outcome = "updated"]

\* update_recipe_metadata, the PATCH answering `status`: the shared state it
\* leaves and its outcome
update_recipe_metadata(recipe, category_names, tag_names, status, shared) ==
    LET existing_categories == IF cat_replace_existing THEN <<>> ELSE recipe.recipeCategory
        existing_tags == IF cat_replace_existing THEN <<>> ELSE recipe.tags
        cats == append_matches(category_names, categories_by_name,
                               ItemSlugs(existing_categories), existing_categories)
        tags == append_matches(tag_names, tags_by_name, ItemSlugs(existing_tags), existing_tags)
        keys == (IF cats.changed THEN {"recipeCategory"} ELSE {})
                    \cup (IF tags.changed THEN {"tags"} ELSE {})
        payload == [k \in keys |->
                      IF k = "recipeCategory" THEN cats.target_list ELSE tags.target_list]
        request == [slug |-> recipe.slug, category_names |-> category_names,
                    tag_names |-> tag_names, payload |-> payload, status |-> status]
        counted(key) ==
            increment_stat(increment_stat(increment_stat(shared.stats, key, 1),
                                          "categories_added", Len(cats.added_names)),
                           "tags_added", Len(tags.added_names))
        entry == CacheEntry(NamesOf(cats.target_list), NamesOf(tags.target_list))
        cache == [slug \in DOMAIN shared.cache \cup {recipe.slug} |->
                    IF slug = recipe.slug THEN entry ELSE shared.cache[slug]]
    IN  IF ~cats.changed /\ ~tags.changed
        THEN [shared EXCEPT !.stats = increment_stat(@, "recipes_no_change", 1),
                            !.outcome = "no_change"]
        ELSE IF cat_dry_run
        THEN [shared EXCEPT !.stats = counted("recipes_planned"), !.outcome = "planned"]
        ELSE IF status = "raised"
        THEN [shared EXCEPT !.patches = @ \cup {request}, !.outcome = "raised"]
        ELSE IF status # "200"
        THEN [shared EXCEPT !.stats = increment_stat(@, "update_failures", 1),
                            !.patches = @ \cup {request}, !.outcome = "failed"]
        ELSE [shared EXCEPT !.stats = counted("recipes_updated"),
                            !.patches = @ \cup {request},
                            !.cache = cache, !.cache_file = cache,
                            !.outcome = "updated"]

SetShared(shared) ==
    /\ cat_stats' = shared.stats
    /\ cat_cache' = shared.cache
    /\ cat_cache_file' = shared.cache_file
    /\ cat_patches' = shared.patches

\* advance_progress
advance_progress(progress, count) == [progress EXCEPT !.done = @ + count]

-----------------------------------------------------------------------------
(* categorizer_core.py: process_batch, one call per thread at a time *)

cat_config == <<cat_dry_run, cat_replace_existing, cat_target_mode, cat_batch_size,
                cat_max_workers, cat_query_retries, cat_recipes>>

\* what a thread records of its call, in order: the prompts it hands to
\* safe_query_with_retry, the update_recipe_metadata calls, the exceptions
Prompt(kind, slugs) ==
    [ev |-> "prompt", kind |-> kind, slugs |-> slugs, categories |-> <<>>, tags |-> <<>>]
Update(slug, labels, outcome) ==
    [ev |-> "update", kind |-> outcome, slugs |-> <<slug>>,
     categories |-> labels.categories, tags |-> labels.tags]
Raised(kind) ==
    [ev |-> "raised", kind |-> kind, slugs |-> <<>>, categories |-> <<>>, tags |-> <<>>]

FreePcs == {"idle", "done", "crashed"}

\* a faulty gate of the cache skip: dry-run is not looked at
cache_skip_enabled_in_dry_run == ~cat_replace_existing

\* process_batch: `if not self.replace_existing and not self.dry_run`
cache_skip_enabled == ~cat_replace_existing /\ ~cat_dry_run

\* process_batch: the test of the cache skip
cache_hit(r, cache) == r.slug \in DOMAIN cache /\ r.recipeCategory # <<>> /\ r.tags # <<>>

\* a free thread starts the next submitted batch: process_batch up to the
\* combined prompt
Take(w) ==
    /\ cat_pc = "pool" /\ cat_queue # <<>> /\ w <= cat_max_workers
    /\ cat_worker[w].pc \in FreePcs
    /\ LET b == Head(cat_queue)
           batch == cat_batches[b]
           hit(r) == cache_skip_enabled /\ cache_hit(r, cat_cache)
           miss(r) == ~hit(r)
           cached_slugs == SlugsOf(SelectSeq(batch, hit))
           rest == SelectSeq(batch, miss)
       IN  /\ cat_queue' = Tail(cat_queue)
           /\ cat_takes' = Append(cat_takes, [worker |-> w, batch |-> b])
           /\ cat_progress' = advance_progress(cat_progress, Len(cached_slugs))
           /\ cat_stats' = increment_stat(cat_stats, "cached_skipped", Len(cached_slugs))
           /\ cat_worker' = [cat_worker EXCEPT ![w] =
                                [IdleWorker EXCEPT !.pc = IF rest = <<>> THEN "done" ELSE "query",
                                                   !.b = b, !.batch = rest,
                                                   !.skipped = cached_slugs]]
    /\ UNCHANGED <<cat_pc, cat_config, cat_cache_lock, cat_batches, cat_cache, cat_cache_file, cat_patches>>
    /\ UNCHANGED <<not_cat_vars, cat_reporter_vars>>

\* process_batch: the combined prompt and what follows from its answer
QueryBatch(w, rich) ==
    /\ cat_worker[w].pc = "query"
    /\ LET me == cat_worker[w]
       IN  \E result \in QueryResults(BatchResponses(me.batch, rich))
                          \cup (IF rich THEN {QueryObject} ELSE {}) :
           \E failed \in FailedAttempts(result) :
              LET stats == safe_query_with_retry(cat_stats, result, failed)
                  log == Append(me.log, Prompt("combined", SlugsOf(me.batch)))
              IN  IF result.kind # "list"
                  THEN /\ cat_stats' = increment_stat(
                                          increment_stat(stats, "batch_parse_failures", 1),
                                          "fallback_batches", 1)
                       /\ cat_worker' = [cat_worker EXCEPT ![w] =
                                            [me EXCEPT !.pc = "fallback", !.i = 1, !.log = log]]
                  ELSE /\ cat_stats' = stats
                       /\ cat_worker' = [cat_worker EXCEPT ![w] =
                                            [me EXCEPT !.pc = "ensure", !.log = log,
                                                       !.parsed = result.entries]]
    /\ UNCHANGED <<cat_pc, cat_config, cat_cache_lock, cat_batches, cat_queue, cat_takes, cat_cache,
                   cat_cache_file, cat_progress, cat_patches>>
    /\ UNCHANGED <<not_cat_vars, cat_reporter_vars>>

IsDict(entry) == entry.dict

\* the first of each slug
RECURSIVE Deduped(_, _)
Deduped(slugs, seen) ==
    IF slugs = <<>> THEN <<>>
    ELSE IF Head(slugs) \in seen THEN Deduped(Tail(slugs), seen)
    ELSE <<Head(slugs)>> \o Deduped(Tail(slugs), seen \cup {Head(slugs)})

\* ensure_tags_for_entries: the recipes of the prompt
missing_slugs(entries, batch) ==
    LET lacks(entry) ==
            entry.slug # "" /\ entry.slug \in Range(SlugsOf(batch)) /\ entry.tags = <<>>
    IN  Deduped(SlugsOf(SelectSeq(entries, lacks)), {})

\* ensure_tags_for_entries: tag_map of the answer
tag_map_of(tag_results) ==
    LET named == {i \in 1..Len(tag_results) : tag_results[i].slug # ""}
    IN  [slug \in {tag_results[i].slug : i \in named} |->
            tag_results[CHOOSE i \in named :
                            /\ tag_results[i].slug = slug
                            /\ \A j \in named : tag_results[j].slug = slug => j <= i].tags]

\* the tags of an entry after ensure_tags_for_entries
EntryTags(entry, tag_map) ==
    IF entry.slug \in DOMAIN tag_map /\ entry.tags = <<>> THEN tag_map[entry.slug]
    ELSE entry.tags

\* apply_parsed_entries_to_batch up to its loop: ensure_tags_for_entries.
\* An element that is not an object has no get(): AttributeError
EnsureTags(w) ==
    /\ cat_worker[w].pc = "ensure"
    /\ LET me == cat_worker[w]
           deduped == missing_slugs(me.parsed, me.batch)
           asked == Append(me.log, Prompt("tags", deduped))
       IN  IF \E i \in 1..Len(me.parsed) : ~IsDict(me.parsed[i])
           THEN /\ cat_worker' = [cat_worker EXCEPT ![w] =
                      [me EXCEPT !.pc = "crashed", !.log = Append(me.log, Raised("AttributeError"))]]
                /\ UNCHANGED cat_stats
           ELSE IF deduped = <<>>
           THEN /\ cat_worker' = [cat_worker EXCEPT ![w] = [me EXCEPT !.pc = "apply", !.i = 1]]
                /\ UNCHANGED cat_stats
           ELSE \E result \in QueryResults(TagResponses(deduped)) :
                   /\ cat_stats' = safe_query_with_retry(cat_stats, result, FailedOf(result))
                   /\ cat_worker' = [cat_worker EXCEPT ![w] =
                        IF result.kind # "list"
                        THEN [me EXCEPT !.pc = "apply", !.i = 1, !.log = asked]
                        ELSE IF \E i \in 1..Len(result.entries) : ~IsDict(result.entries[i])
                        THEN [me EXCEPT !.pc = "crashed",
                                        !.log = Append(asked, Raised("AttributeError"))]
                        ELSE [me EXCEPT !.pc = "apply", !.i = 1, !.log = asked,
                                        !.tag_map = tag_map_of(result.entries)]]
    /\ UNCHANGED <<cat_pc, cat_config, cat_cache_lock, cat_batches, cat_queue, cat_takes, cat_cache,
                   cat_cache_file, cat_progress, cat_patches>>
    /\ UNCHANGED <<not_cat_vars, cat_reporter_vars>>

RecipeOf(batch, slug) == batch[CHOOSE i \in 1..Len(batch) : batch[i].slug = slug]

\* the slugs update_recipe_metadata was called for
Processed(log) == {log[k].slugs[1] : k \in {j \in 1..Len(log) : log[j].ev = "update"}}

\* apply_parsed_entries_to_batch: one entry of its loop and, after the
\* last, the count of the recipes without an entry and the progress
ApplyEntry(w) ==
    /\ cat_worker[w].pc = "apply"
    /\ LET me == cat_worker[w]
           entry == me.parsed[me.i]
           known == IsDict(entry) /\ entry.slug \in Range(SlugsOf(me.batch))
           recipe == RecipeOf(me.batch, entry.slug)
       IN  \E status \in PatchStatuses :
           \* labels, after and log are each computed once
           \E labels \in {parse_entry_labels([entry EXCEPT !.tags = EntryTags(entry, me.tag_map)])} :
           \E after \in
                 {IF ~IsDict(entry) \/ entry.slug = "" THEN Shared
                  ELSE IF ~known
                  THEN [Shared EXCEPT !.stats = increment_stat(@, "unknown_slug_count", 1)]
                  ELSE update_recipe_metadata(recipe, labels.categories, labels.tags,
                                              status, Shared)} :
           \E log \in {IF known THEN Append(me.log, Update(entry.slug, labels, after.outcome))
                       ELSE me.log} :
              LET missing == Range(SlugsOf(me.batch)) \ Processed(log)
              IN  IF after.outcome = "raised"
                  THEN /\ SetShared(after)
                       /\ cat_worker' = [cat_worker EXCEPT ![w] =
                             [me EXCEPT !.pc = "crashed",
                                        !.log = Append(log, Raised("RequestException"))]]
                       /\ UNCHANGED cat_progress
                  ELSE IF me.i < Len(me.parsed)
                  THEN /\ SetShared(after)
                       /\ cat_worker' = [cat_worker EXCEPT ![w] =
                             [me EXCEPT !.i = me.i + 1, !.log = log]]
                       /\ UNCHANGED cat_progress
                  ELSE /\ SetShared([after EXCEPT !.stats =
                             increment_stat(@, "model_missing_entry_count", Cardinality(missing))])
                       /\ cat_worker' = [cat_worker EXCEPT ![w] =
                             [me EXCEPT !.pc = "done", !.log = log]]
                       /\ cat_progress' = advance_progress(cat_progress, Len(me.batch))
    /\ UNCHANGED <<cat_pc, cat_config, cat_cache_lock, cat_batches, cat_queue, cat_takes>>
    /\ UNCHANGED <<not_cat_vars, cat_reporter_vars>>

\* extract_entry_for_slug
extract_entry_for_slug(parsed, slug) ==
    LET hits == {i \in 1..Len(parsed.entries) :
                    IsDict(parsed.entries[i]) /\ parsed.entries[i].slug = slug}
    IN  IF parsed.kind # "list" \/ hits = {} THEN NonDictEntry
        ELSE parsed.entries[CHOOSE i \in hits : \A j \in hits : i <= j]

\* the answers classify_single_recipe_with_fallback gets to its combined,
\* categories and tags prompts, in the model
SingleCourses(slug, rich) ==
    {<<QueryList(SingleFound(slug)), QueryNone, QueryNone>>,
     <<QueryNone, QueryNone, QueryNone>>}
    \cup (IF rich
          THEN {<<QueryList(SingleNotFound), QueryList(CategoriesFound(slug)), QueryNone>>,
                <<QueryNone, QueryNone, QueryList(TagsFound(slug))>>,
                <<QueryObject, QueryList(CategoriesFound(slug)), QueryList(TagsFound(slug))>>,
                <<QueryList(SingleUnlabelled(slug)), QueryNone, QueryNone>>}
          ELSE {})

\* a classify_single_recipe_with_fallback that returns an entry even when the
\* split prompts gave neither categories nor tags
classify_single_recipe_with_fallback_never_none(recipe, stats, q) ==
    LET slug == recipe.slug
        combined == Prompt("combined", <<slug>>)
        entry == extract_entry_for_slug(q[1], slug)
        s1 == safe_query_with_retry(stats, q[1], FailedOf(q[1]))
        s2 == safe_query_with_retry(s1, q[2], FailedOf(q[2]))
        s3 == safe_query_with_retry(s2, q[3], FailedOf(q[3]))
        category_entry == extract_entry_for_slug(q[2], slug)
        tag_entry == extract_entry_for_slug(q[3], slug)
        categories == IF IsDict(category_entry)
                      THEN normalize_name_list(category_entry.categories) ELSE <<>>
        tags == IF IsDict(tag_entry) THEN normalize_name_list(tag_entry.tags) ELSE <<>>
    IN  IF IsDict(entry)
        THEN [log |-> <<combined>>, stats |-> s1, found |-> TRUE,
              labels |-> parse_entry_labels(entry)]
        ELSE [log |-> <<combined, Prompt("categories", <<slug>>), Prompt("tags", <<slug>>)>>,
              stats |-> s3, found |-> TRUE,
              labels |-> Labels(categories, tags)]

\* classify_single_recipe_with_fallback, the provider answering q: the
\* prompts issued, the counters of safe_query_with_retry and the entry
\* returned (found = FALSE for None)
classify_single_recipe_with_fallback(recipe, stats, q) ==
    LET slug == recipe.slug
        combined == Prompt("combined", <<slug>>)
        entry == extract_entry_for_slug(q[1], slug)
        s1 == safe_query_with_retry(stats, q[1], FailedOf(q[1]))
        s2 == safe_query_with_retry(s1, q[2], FailedOf(q[2]))
        s3 == safe_query_with_retry(s2, q[3], FailedOf(q[3]))
        category_entry == extract_entry_for_slug(q[2], slug)
        tag_entry == extract_entry_for_slug(q[3], slug)
        categories == IF IsDict(category_entry)
                      THEN normalize_name_list(category_entry.categories) ELSE <<>>
        tags == IF IsDict(tag_entry) THEN normalize_name_list(tag_entry.tags) ELSE <<>>
    IN  IF IsDict(entry)
        THEN [log |-> <<combined>>, stats |-> s1, found |-> TRUE,
              labels |-> parse_entry_labels(entry)]
        ELSE [log |-> <<combined, Prompt("categories", <<slug>>), Prompt("tags", <<slug>>)>>,
              stats |-> s3, found |-> categories # <<>> \/ tags # <<>>,
              labels |-> Labels(categories, tags)]

\* process_batch_with_fallback: one recipe of its loop
FallbackRecipe(w, rich) ==
    /\ cat_worker[w].pc = "fallback"
    /\ LET me == cat_worker[w]
           recipe == me.batch[me.i]
           attempts == increment_stat(cat_stats, "per_recipe_fallback_attempts", 1)
           pc == IF me.i < Len(me.batch) THEN "fallback" ELSE "done"
       IN  \E q \in SingleCourses(recipe.slug, rich) : \E status \in PatchStatuses :
              LET entry == classify_single_recipe_with_fallback(recipe, attempts, q)
                  log == me.log \o entry.log
                  after == update_recipe_metadata(
                               recipe, normalize_name_list(entry.labels.categories),
                               normalize_name_list(entry.labels.tags), status,
                               [Shared EXCEPT !.stats = entry.stats])
              IN  IF ~entry.found
                  THEN /\ SetShared([Shared EXCEPT !.stats =
                             increment_stat(entry.stats, "per_recipe_no_classification", 1)])
                       /\ cat_progress' = advance_progress(cat_progress, 1)
                       /\ cat_worker' = [cat_worker EXCEPT ![w] =
                             [me EXCEPT !.pc = pc, !.i = me.i + 1, !.log = log,
                                        !.parsed = q[1].entries]]
                  ELSE IF after.outcome = "raised"
                  THEN /\ SetShared(after)
                       /\ UNCHANGED cat_progress
                       /\ cat_worker' = [cat_worker EXCEPT ![w] =
                             [me EXCEPT !.pc = "crashed", !.parsed = q[1].entries,
                                        !.log = Append(Append(log, Update(recipe.slug, entry.labels, "raised")),
                                                       Raised("RequestException"))]]
                  ELSE /\ SetShared(after)
                       /\ cat_progress' = advance_progress(cat_progress, 1)
                       /\ cat_worker' = [cat_worker EXCEPT ![w] =
                             [me EXCEPT !.pc = pc, !.i = me.i + 1, !.parsed = q[1].entries,
                                        !.log = Append(log, Update(recipe.slug, entry.labels,
                                                           after.outcome))]]
    /\ UNCHANGED <<cat_pc, cat_config, cat_cache_lock, cat_batches, cat_queue, cat_takes>>
    /\ UNCHANGED <<not_cat_vars, cat_reporter_vars>>

-----------------------------------------------------------------------------
(* categorizer_core.py: run() *)

TargetModes == {"missing-categories", "missing-tags", "missing-either"}
QueryRetries == {1, 2}

\* run() up to the executor: targets, progress total, batches, one submit
\* per batch
RunStart ==
    /\ cat_pc = "run"
    /\ LET targets == select_targets(cat_recipes)
           batches == batch_recipes(targets, cat_batch_size)
       IN  /\ cat_stats' = ZeroStats
           /\ cat_progress' = [done |-> 0, total |-> Len(targets)]
           /\ cat_batches' = IF targets = <<>> THEN <<>> ELSE batches
           /\ cat_queue' = IF targets = <<>> THEN <<>> ELSE [k \in 1..Len(batches) |-> k]
           /\ cat_pc' = IF targets = <<>> THEN "done" ELSE "pool"
           /\ cat_stop_event' = FALSE
           /\ cat_reporter' = IF targets = <<>> THEN cat_reporter
                               ELSE [pc |-> "running", last_done |-> -1]
    /\ UNCHANGED <<cat_config, cat_cache_lock, cat_takes, cat_worker, cat_cache, cat_cache_file, cat_patches>>
    /\ UNCHANGED not_cat_vars

\* a run() that returns without setting progress_stop_event
RunFinish_without_stop_signal ==
    /\ cat_pc = "pool" /\ cat_queue = <<>>
    /\ \A w \in Workers : cat_worker[w].pc \in FreePcs
    /\ cat_pc' = "done"
    /\ UNCHANGED <<cat_stop_event, cat_reporter>>
    /\ UNCHANGED <<cat_config, cat_cache_lock, cat_batches, cat_queue, cat_takes, cat_worker, cat_cache,
                   cat_cache_file, cat_stats, cat_progress, cat_patches>>
    /\ UNCHANGED not_cat_vars

\* eta_reporter: one turn of its loop, up to the wait on the stop event
ReporterStep ==
    /\ cat_reporter.pc = "running"
    /\ cat_reporter' =
          IF cat_stop_event \/ cat_progress.total = 0
          THEN [cat_reporter EXCEPT !.pc = "stopped"]
          ELSE [pc |-> IF cat_progress.done >= cat_progress.total THEN "stopped" ELSE "running",
                last_done |-> cat_progress.done]
    /\ UNCHANGED <<cat_pc, cat_config, cat_cache_lock, cat_batches, cat_queue, cat_takes, cat_worker,
                   cat_cache, cat_cache_file, cat_stats, cat_progress, cat_patches, cat_stop_event>>
    /\ UNCHANGED not_cat_vars

\* run() after the executor: every future has completed, the stop event is
\* set, the summary is printed
RunFinish ==
    /\ cat_pc = "pool" /\ cat_queue = <<>>
    /\ \A w \in Workers : cat_worker[w].pc \in FreePcs
    /\ cat_pc' = "done"
    /\ cat_stop_event' = TRUE
    /\ UNCHANGED cat_reporter
    /\ UNCHANGED <<cat_config, cat_cache_lock, cat_batches, cat_queue, cat_takes, cat_worker, cat_cache,
                   cat_cache_file, cat_stats, cat_progress, cat_patches>>
    /\ UNCHANGED not_cat_vars

\* a categorizer as __init__ leaves it, the cache loaded from the file
cat_Init ==
    /\ cat_dry_run \in BOOLEAN /\ cat_replace_existing \in BOOLEAN
    /\ cat_recipes \in RecipeLists
    /\ cat_takes = <<>> /\ cat_worker = [w \in Workers |-> IdleWorker]
    /\ cat_cache_file \in CacheFiles(cat_recipes) /\ cat_cache = cat_cache_file
    /\ cat_stats = ZeroStats /\ cat_patches = {} /\ cat_cache_lock = 0
    /\ cat_stop_event = FALSE /\ cat_reporter = NoReporter

\* process_batch is called once, on any batch, by one thread
CatBatchInit ==
    /\ cat_Init
    /\ cat_pc = "pool" /\ cat_target_mode = "missing-either"
    /\ cat_query_retries \in QueryRetries
    /\ cat_batch_size = MaxBatch /\ cat_max_workers = 1
    /\ cat_batches = <<cat_recipes>> /\ cat_queue = <<1>>
    /\ cat_progress = [done |-> 0, total |-> Len(cat_recipes)]
    /\ rp_Idle /\ cl_Idle /\ srv_Idle /\ tools_Idle

CatBatchNext ==
    \/ \E w \in Workers : Take(w)
    \/ \E w \in Workers : QueryBatch(w, TRUE)
    \/ \E w \in Workers : EnsureTags(w)
    \/ \E w \in Workers : ApplyEntry(w)
    \/ \E w \in Workers : FallbackRecipe(w, TRUE)

SpecCatBatch == CatBatchInit /\ [][CatBatchNext]_vars

\* run() is called
CatRunInit ==
    /\ cat_Init
    /\ cat_pc = "run"
    /\ cat_target_mode \in (IF cat_replace_existing THEN {"missing-either"} ELSE TargetModes)
    /\ cat_query_retries = 1
    /\ cat_batch_size \in {1, MaxBatch} /\ cat_max_workers = Cardinality(Workers)
    /\ cat_batches = <<>> /\ cat_queue = <<>>
    /\ cat_progress = [done |-> 0, total |-> 0]
    /\ rp_Idle /\ cl_Idle /\ srv_Idle /\ tools_Idle

CatRunNext ==
    \/ RunStart
    \/ \E w \in Workers : Take(w)
    \/ \E w \in Workers : QueryBatch(w, FALSE)
    \/ \E w \in Workers : EnsureTags(w)
    \/ \E w \in Workers : ApplyEntry(w)
    \/ \E w \in Workers : FallbackRecipe(w, FALSE)
    \/ ReporterStep
    \/ RunFinish

SpecCatRun == CatRunInit /\ [][CatRunNext]_vars

-----------------------------------------------------------------------------
(* Properties of the classification engine *)

\* what a thread's record gained in this step, of its current call
NewEvents(w) ==
    LET before == cat_worker[w].log
        after == cat_worker'[w].log
    IN  IF cat_worker'[w].b = cat_worker[w].b /\ Len(after) >= Len(before)
        THEN SubSeq(after, Len(before) + 1, Len(after))
        ELSE <<>>

IsUpdate(e) == e.ev = "update"
IsPrompt(e) == e.ev = "prompt"
NewUpdates(w) == SelectSeq(NewEvents(w), IsUpdate)

FetchedRecipe(slug) == cat_recipes[CHOOSE i \in 1..Len(cat_recipes) : cat_recipes[i].slug = slug]

\* the lists a recipe counts as having: its own or, when honour_replace and
\* force re-categorize is on, none
Existing(list, honour_replace) ==
    IF honour_replace /\ cat_replace_existing THEN <<>> ELSE list

\* the catalog items a returned name matches, whatever its case and padding,
\* and that are not among `have`
NewFor(have, names, catalog) ==
    {item \in Range(catalog) :
        /\ \A i \in 1..Len(have) : have[i].slug # item.slug
        /\ \E i \in 1..Len(names) : Lower(Strip(names[i])) = Lower(Strip(item.name))}

NetAdditions(slug, categories, tags, honour_replace) ==
    LET r == FetchedRecipe(slug)
    IN  [categories |-> NewFor(Existing(r.recipeCategory, honour_replace), categories,
                               AllCategories),
         tags |-> NewFor(Existing(r.tags, honour_replace), tags, AllTags)]

\* list is base followed by the items of new, each once
Extends(list, base, new) ==
    /\ Len(list) = Len(base) + Cardinality(new)
    /\ SubSeq(list, 1, Len(base)) = base
    /\ {list[i] : i \in (Len(base) + 1)..Len(list)} = new

\* C6 (dry-run): with dry-run set no recipe PATCH is ever issued and the
\* cache is never written, in memory or on disk; an update_recipe_metadata
\* call with net additions ends as a plan and is counted in recipes_planned,
\* never in recipes_updated.
C6_DryRunNeverWrites ==
    /\ [](cat_dry_run => cat_patches = {} /\ cat_stats["recipes_updated"] = 0)
    /\ [][cat_dry_run =>
            /\ cat_cache' = cat_cache /\ cat_cache_file' = cat_cache_file
            /\ \A w \in Workers : \A k \in 1..Len(NewUpdates(w)) :
                  LET e == NewUpdates(w)[k]
                      new == NetAdditions(e.slugs[1], e.categories, e.tags, TRUE)
                  IN  IF new.categories \cup new.tags # {}
                      THEN /\ e.kind = "planned"
                           /\ cat_stats'["recipes_planned"] = cat_stats["recipes_planned"] + 1
                      ELSE /\ e.kind = "no_change"
                           /\ cat_stats'["recipes_planned"] = cat_stats["recipes_planned"]]_vars

\* a dry run has planned a change and has finished its batch
C6_Witness ==
    /\ cat_dry_run /\ cat_stats["recipes_planned"] > 0
    /\ \E w \in Workers :
          /\ cat_worker[w].pc = "done"
          /\ \E k \in 1..Len(cat_worker[w].log) : cat_worker[w].log[k].kind = "planned"

\* the cache-skip test of the spec: the recipe is in the result cache and has
\* categories and tags assigned
CachedWithBoth(r) == r.slug \in DOMAIN cat_cache /\ r.recipeCategory # <<>> /\ r.tags # <<>>

\* C7 (cache skip): when a thread starts process_batch, it skips exactly the
\* recipes of the batch that are in the result cache and have non-empty
\* categories and non-empty tags, provided neither dry-run nor force
\* re-categorize is on, and counts them in cached_skipped and in the
\* progress; a skipped recipe is in no prompt; under dry-run nothing is
\* skipped and the combined prompt holds every recipe of the batch.
C7_CacheSkip ==
    /\ [][\A w \in Workers : cat_worker'[w].b # cat_worker[w].b =>
            LET batch == cat_batches[cat_worker'[w].b]
                skipped == Range(cat_worker'[w].skipped)
            IN  /\ \A i \in 1..Len(batch) :
                      batch[i].slug \in skipped <=>
                          (CachedWithBoth(batch[i]) /\ ~cat_dry_run /\ ~cat_replace_existing)
                /\ skipped \subseteq Range(SlugsOf(batch))
                /\ cat_stats'["cached_skipped"] =
                        cat_stats["cached_skipped"] + Cardinality(skipped)
                /\ cat_progress'.done = cat_progress.done + Cardinality(skipped)]_vars
    /\ [](\A w \in Workers : \A k \in 1..Len(cat_worker[w].log) :
            IsPrompt(cat_worker[w].log[k]) =>
                Range(cat_worker[w].log[k].slugs) \cap Range(cat_worker[w].skipped) = {})
    /\ [](cat_dry_run => \A w \in Workers :
            /\ cat_worker[w].skipped = <<>>
            /\ (cat_worker[w].pc \notin {"idle", "query"} /\ cat_batches[cat_worker[w].b] # <<>>)
                  => cat_worker[w].log[1] =
                        Prompt("combined", SlugsOf(cat_batches[cat_worker[w].b])))

\* a thread has skipped a cached recipe and has asked about another recipe
\* of the same batch
C7_Witness ==
    \E w \in Workers :
        /\ cat_worker[w].pc = "done" /\ cat_worker[w].skipped # <<>>
        /\ cat_worker[w].log # <<>> /\ IsPrompt(cat_worker[w].log[1])
        /\ cat_stats["cached_skipped"] = Len(cat_worker[w].skipped)

\* C8 (batches partition the targets): once run() has built its batches,
\* every selected target is in exactly one batch, every batch has between 1
\* and batch_size recipes, every batch was submitted once and is started at
\* most once (exactly once when run() ends), and no recipe is in the batches
\* of two starts, so no two threads ever process the same recipe.
C8_BatchesPartitionTargets ==
    cat_pc \in {"pool", "done"} =>
        LET targets == select_targets(cat_recipes)
            places(slug) == {<<b, j>> \in (1..Len(cat_batches)) \X (1..MaxBatch + 1) :
                                j <= Len(cat_batches[b]) /\ cat_batches[b][j].slug = slug}
            started == [k \in 1..Len(cat_takes) |-> cat_takes[k].batch]
            slugs(b) == Range(SlugsOf(cat_batches[b]))
        IN  /\ \A i \in 1..Len(targets) : Cardinality(places(targets[i].slug)) = 1
            /\ \A b \in 1..Len(cat_batches) :
                  /\ Len(cat_batches[b]) \in 1..cat_batch_size
                  /\ Range(cat_batches[b]) \subseteq Range(targets)
            /\ started \o cat_queue = [b \in 1..Len(cat_batches) |-> b]
            /\ cat_pc = "done" => cat_queue = <<>>
            /\ \A k1, k2 \in 1..Len(cat_takes) :
                  k1 # k2 => slugs(cat_takes[k1].batch) \cap slugs(cat_takes[k2].batch) = {}
            /\ \A w1, w2 \in Workers :
                  (w1 # w2 /\ cat_worker[w1].b # 0 /\ cat_worker[w2].b # 0)
                      => /\ cat_worker[w1].b # cat_worker[w2].b
                         /\ Range(SlugsOf(cat_worker[w1].batch))
                                \cap Range(SlugsOf(cat_worker[w2].batch)) = {}

\* run() has ended after two threads processed two batches
C8_Witness ==
    /\ cat_pc = "done" /\ Len(cat_batches) >= 2
    /\ \E k1, k2 \in 1..Len(cat_takes) : cat_takes[k1].worker # cat_takes[k2].worker
    /\ \A w \in Workers : cat_worker[w].pc = "done" /\ cat_worker[w].batch # <<>>

\* the recipes of the thread's batch whose entry of the answer has no tags
LackingTags(w) ==
    {cat_worker[w].parsed[i].slug : i \in {j \in 1..Len(cat_worker[w].parsed) :
        /\ cat_worker[w].parsed[j].slug \in Range(SlugsOf(cat_worker[w].batch))
        /\ cat_worker[w].parsed[j].tags = <<>>}}

\* the answer has an entry of a recipe of the batch with categories and no tags
HasCategoriesOnlyEntry(w) ==
    \E i \in 1..Len(cat_worker[w].parsed) :
        /\ cat_worker[w].parsed[i].slug \in Range(SlugsOf(cat_worker[w].batch))
        /\ cat_worker[w].parsed[i].categories # <<>>
        /\ cat_worker[w].parsed[i].tags = <<>>

\* C9 (tag top-up): once a parsed batch answer with an entry, for a recipe of
\* the batch, that has categories and no tags has been taken up, the thread
\* has issued exactly one tag-only prompt, for exactly the recipes of the
\* batch whose entries lack tags, before any update_recipe_metadata call of
\* the batch, and no categories-only prompt.
C9_TagTopUp ==
    \A w \in Workers :
        LET log == cat_worker[w].log
            tag_prompts == {k \in 1..Len(log) : IsPrompt(log[k]) /\ log[k].kind = "tags"}
        IN  (cat_worker[w].pc \in {"apply", "done", "crashed"} /\ HasCategoriesOnlyEntry(w))
                => /\ Cardinality(tag_prompts) = 1
                   /\ \A k \in tag_prompts :
                         /\ Range(log[k].slugs) = LackingTags(w)
                         /\ Len(log[k].slugs) = Cardinality(LackingTags(w))
                         /\ \A j \in 1..k : ~IsUpdate(log[j])
                   /\ \A k \in 1..Len(log) : IsPrompt(log[k]) => log[k].kind # "categories"

\* every PATCH request carries a net addition; its lists are the lists the
\* recipe counts as having, followed by the new catalog matches
PatchesAreNetAdditions(honour_replace) ==
    \A p \in cat_patches :
        LET r == FetchedRecipe(p.slug)
            new == NetAdditions(p.slug, p.category_names, p.tag_names, honour_replace)
        IN  /\ new.categories \cup new.tags # {}
            /\ DOMAIN p.payload = (IF new.categories # {} THEN {"recipeCategory"} ELSE {})
                                     \cup (IF new.tags # {} THEN {"tags"} ELSE {})
            /\ "recipeCategory" \in DOMAIN p.payload =>
                  Extends(p.payload["recipeCategory"],
                          Existing(r.recipeCategory, honour_replace), new.categories)
            /\ "tags" \in DOMAIN p.payload =>
                  Extends(p.payload["tags"], Existing(r.tags, honour_replace), new.tags)

\* an update_recipe_metadata call without net addition is counted in
\* recipes_no_change and writes nothing; one with a net addition is not
\* counted there
NoChangeIsCounted(honour_replace) ==
    \A w \in Workers : \A k \in 1..Len(NewUpdates(w)) :
        LET e == NewUpdates(w)[k]
            new == NetAdditions(e.slugs[1], e.categories, e.tags, honour_replace)
        IN  IF new.categories \cup new.tags = {}
            THEN /\ e.kind = "no_change"
                 /\ cat_stats'["recipes_no_change"] = cat_stats["recipes_no_change"] + 1
                 /\ cat_patches' = cat_patches
                 /\ cat_cache' = cat_cache /\ cat_cache_file' = cat_cache_file
            ELSE /\ e.kind # "no_change"
                 /\ cat_stats'["recipes_no_change"] = cat_stats["recipes_no_change"]

\* C10 as stated (apply semantics): a PATCH is issued only when a returned
\* name matches, whatever its case, a catalog category or tag the recipe does
\* not already have; names without a match add nothing; a call without such a
\* name is counted in recipes_no_change and writes nothing.
C10_PatchOnlyForNewName ==
    /\ [](PatchesAreNetAdditions(FALSE))
    /\ [][NoChangeIsCounted(FALSE)]_vars

\* C10 (apply semantics, amended): the same, the recipe counting as having
\* no category and no tag when force re-categorize is on.
C10_PatchOnlyForNetAddition ==
    /\ [](PatchesAreNetAdditions(TRUE))
    /\ [][NoChangeIsCounted(TRUE)]_vars

\* without force re-categorize, a recipe that had Dinner was patched with
\* Dinner and Dessert, Dessert coming from the name " dS"; an unknown name
\* was ignored
C10_Witness ==
    /\ ~cat_replace_existing /\ cat_stats["recipes_no_change"] > 0
    /\ \E p \in cat_patches :
          /\ p.status = "200"
          /\ FetchedRecipe(p.slug).recipeCategory = <<Dinner>>
          /\ "recipeCategory" \in DOMAIN p.payload
          /\ p.payload["recipeCategory"] = <<Dinner, Dessert>>
          /\ Strip(NameDessertPadded) \in Range(p.category_names)

-----------------------------------------------------------------------------
(* categorizer_core.py: update_recipe_metadata from the PATCH to the cache  *)
(* write, statement by statement, by the threads of the executor            *)

\* the next recipe of the thread's batch, or the end of process_batch
NextRecipe(me) ==
    IF me.i < Len(me.batch) THEN [me EXCEPT !.i = me.i + 1, !.pc = "patch"]
    ELSE [me EXCEPT !.pc = "done"]

\* the thread holds self.cache_lock
InCacheLock(w) == cat_worker[w].pc \in {"store", "open", "dump", "release"}

\* a free thread starts the next submitted batch; the provider answers with
\* a complete entry for every recipe of the batch
TakeAnswered(w) ==
    /\ cat_pc = "pool" /\ cat_queue # <<>> /\ w <= cat_max_workers
    /\ cat_worker[w].pc \in FreePcs
    /\ LET b == Head(cat_queue)
           batch == cat_batches[b]
       IN  /\ cat_queue' = Tail(cat_queue)
           /\ cat_takes' = Append(cat_takes, [worker |-> w, batch |-> b])
           /\ cat_worker' = [cat_worker EXCEPT ![w] =
                 [IdleWorker EXCEPT !.pc = "patch", !.b = b, !.batch = batch,
                                    !.parsed = [i \in 1..Len(batch) |->
                                                   Entry(batch[i].slug, LabelsFull)]]]
    /\ UNCHANGED <<cat_pc, cat_config, cat_cache_lock, cat_batches, cat_cache, cat_cache_file,
                   cat_stats, cat_progress, cat_patches>>
    /\ UNCHANGED <<not_cat_vars, cat_reporter_vars>>

\* update_recipe_metadata up to the cache lock: the matches, the dry-run
\* plan or the PATCH, and the statistics
PatchRecipe(w) ==
    /\ cat_pc = "pool" /\ cat_worker[w].pc = "patch"
    /\ LET me == cat_worker[w]
           recipe == me.batch[me.i]
           labels == parse_entry_labels(me.parsed[me.i])
       IN  \E status \in PatchStatuses :
              LET after == update_recipe_metadata(recipe, labels.categories, labels.tags,
                                                  status, Shared)
                  logged == [me EXCEPT !.log =
                                Append(@, Update(recipe.slug, labels, after.outcome))]
                  then == IF after.outcome = "updated" THEN [logged EXCEPT !.pc = "lock"]
                          ELSE IF after.outcome = "raised"
                          THEN [logged EXCEPT !.pc = "crashed",
                                              !.log = Append(@, Raised("RequestException"))]
                          ELSE NextRecipe(logged)
              IN  /\ cat_stats' = after.stats
                  /\ cat_patches' = after.patches
                  /\ cat_worker' = [cat_worker EXCEPT ![w] = then]
                  /\ cat_progress' = IF then.pc = "done"
                                     THEN advance_progress(cat_progress, Len(me.batch))
                                     ELSE cat_progress
    /\ UNCHANGED <<cat_pc, cat_config, cat_cache_lock, cat_batches, cat_queue, cat_takes,
                   cat_cache, cat_cache_file>>
    /\ UNCHANGED <<not_cat_vars, cat_reporter_vars>>

\* `with self.cache_lock:` is entered
AcquireCacheLock(w) ==
    /\ cat_pc = "pool" /\ cat_worker[w].pc = "lock" /\ cat_cache_lock = 0
    /\ cat_cache_lock' = w
    /\ cat_worker' = [cat_worker EXCEPT ![w].pc = "store"]
    /\ UNCHANGED <<cat_pc, cat_config, cat_batches, cat_queue, cat_takes, cat_cache,
                   cat_cache_file, cat_stats, cat_progress, cat_patches>>
    /\ UNCHANGED <<not_cat_vars, cat_reporter_vars>>

\* self.cache[recipe_slug] = {...}
StoreCacheEntry(w) ==
    /\ cat_pc = "pool" /\ cat_worker[w].pc = "store"
    /\ LET me == cat_worker[w]
           labels == parse_entry_labels(me.parsed[me.i])
       IN  cat_cache' = update_recipe_metadata(me.batch[me.i], labels.categories,
                                               labels.tags, "200", Shared).cache
    /\ cat_worker' = [cat_worker EXCEPT ![w].pc = "open"]
    /\ UNCHANGED <<cat_pc, cat_config, cat_cache_lock, cat_batches, cat_queue, cat_takes,
                   cat_cache_file, cat_stats, cat_progress, cat_patches>>
    /\ UNCHANGED <<not_cat_vars, cat_reporter_vars>>

\* save_cache: self.cache_file.open("w") empties the file; until json.dump
\* has written it out, load_cache reads it as {}
OpenCacheFile(w) ==
    /\ cat_pc = "pool" /\ cat_worker[w].pc = "open"
    /\ cat_cache_file' = EmptyDict
    /\ cat_worker' = [cat_worker EXCEPT ![w].pc = "dump"]
    /\ UNCHANGED <<cat_pc, cat_config, cat_cache_lock, cat_batches, cat_queue, cat_takes,
                   cat_cache, cat_stats, cat_progress, cat_patches>>
    /\ UNCHANGED <<not_cat_vars, cat_reporter_vars>>

\* save_cache: json.dump(self.cache, f) and the file is closed
DumpCache(w) ==
    /\ cat_pc = "pool" /\ cat_worker[w].pc = "dump"
    /\ cat_cache_file' = cat_cache
    /\ cat_worker' = [cat_worker EXCEPT ![w].pc = "release"]
    /\ UNCHANGED <<cat_pc, cat_config, cat_cache_lock, cat_batches, cat_queue, cat_takes,
                   cat_cache, cat_stats, cat_progress, cat_patches>>
    /\ UNCHANGED <<not_cat_vars, cat_reporter_vars>>

\* the `with` block is left, update_recipe_metadata returns True and the
\* loop of apply_parsed_entries_to_batch goes on
ReleaseCacheLock(w) ==
    /\ cat_pc = "pool" /\ cat_worker[w].pc = "release"
    /\ cat_cache_lock' = 0
    /\ LET then == NextRecipe(cat_worker[w])
       IN  /\ cat_worker' = [cat_worker EXCEPT ![w] = then]
           /\ cat_progress' = IF then.pc = "done"
                              THEN advance_progress(cat_progress, Len(then.batch))
                              ELSE cat_progress
    /\ UNCHANGED <<cat_pc, cat_config, cat_batches, cat_queue, cat_takes, cat_cache,
                   cat_cache_file, cat_stats, cat_patches>>
    /\ UNCHANGED <<not_cat_vars, cat_reporter_vars>>

\* the process is interrupted: no thread takes another step
Interrupt ==
    /\ cat_pc = "pool"
    /\ cat_pc' = "interrupted"
    /\ UNCHANGED <<cat_config, cat_cache_lock, cat_batches, cat_queue, cat_takes, cat_worker,
                   cat_cache, cat_cache_file, cat_stats, cat_progress, cat_patches>>
    /\ UNCHANGED <<not_cat_vars, cat_reporter_vars>>

\* the executor has been given the batches of all recipes
CatCacheInit ==
    /\ cat_Init
    /\ cat_pc = "pool" /\ cat_target_mode = "missing-either"
    /\ cat_query_retries = 1
    /\ cat_batch_size \in {1, MaxBatch} /\ cat_max_workers = Cardinality(Workers)
    /\ cat_batches = batch_recipes(cat_recipes, cat_batch_size)
    /\ cat_queue = [k \in 1..Len(cat_batches) |-> k]
    /\ cat_progress = [done |-> 0, total |-> Len(cat_recipes)]
    /\ rp_Idle /\ cl_Idle /\ srv_Idle /\ tools_Idle

CatCacheNext ==
    \/ \E w \in Workers : TakeAnswered(w)
    \/ \E w \in Workers : PatchRecipe(w)
    \/ \E w \in Workers : AcquireCacheLock(w)
    \/ \E w \in Workers : StoreCacheEntry(w)
    \/ \E w \in Workers : OpenCacheFile(w)
    \/ \E w \in Workers : DumpCache(w)
    \/ \E w \in Workers : ReleaseCacheLock(w)
    \/ Interrupt
    \/ RunFinish

SpecCatCache == CatCacheInit /\ [][CatCacheNext]_vars

\* the recipes a PATCH answered 200 for
PatchedOk == {p.slug : p \in {q \in cat_patches : q.status = "200"}}

\* the cache entries a process started now would not find in the file: those
\* of the cache in memory and of the recipes PATCHed with success
LostEntries == (DOMAIN cat_cache \cup PatchedOk) \ DOMAIN cat_cache_file

\* the cache and the file change only in a step of the thread holding the lock
CacheWrittenUnderLock ==
    (cat_cache' # cat_cache \/ cat_cache_file' # cat_cache_file)
        => /\ cat_cache_lock \in Workers /\ cat_cache_lock' = cat_cache_lock
           /\ InCacheLock(cat_cache_lock)
           /\ \A w \in Workers \ {cat_cache_lock} : cat_worker'[w] = cat_worker[w]

\* a thread whose PATCH was answered 200 goes for the lock, and leaves its
\* recipe only with the entry set and the whole cache in the file
FlushedBeforeNextRecipe ==
    \A w \in Workers :
        LET me == cat_worker[w]
            slug == me.batch[me.i].slug
        IN  /\ (me.pc = "patch" /\ (PatchedOk' # PatchedOk) /\ cat_worker'[w] # me)
                    => cat_worker'[w].pc = "lock"
            /\ (me.pc \in {"lock", "store", "open", "dump", "release"}
                    /\ cat_worker'[w].pc \notin {"lock", "store", "open", "dump", "release"})
                    => /\ slug \in DOMAIN cat_cache'
                       /\ cat_cache_file' = cat_cache'

\* C11: after every successful non-dry-run PATCH the recipe's cache entry is
\* set and the whole cache is written to the file under the cache lock before
\* the thread's next recipe; the cache and the file change only under the
\* lock; and an interruption loses at most one recipe's cache entry.
C11_WriteThroughCache ==
    /\ [][CacheWrittenUnderLock]_vars
    /\ [][FlushedBeforeNextRecipe]_vars
    /\ [](cat_pc = "interrupted" => Cardinality(LostEntries) <= 1)

-----------------------------------------------------------------------------
(* The budget and the accounting of one cleanup run *)

\* the actions of the plan the loop has gone past
PlanDone == {k \in 1..Len(cl_plan) : k < cl_idx}

\* the actions gone past whose source id is in the checkpoint
PlanSkipped == {k \in PlanDone : cl_plan[k].source_id \in cl_checkpoint}

\* the run is in its loop or past it
InRun == cl_pc \in {"loop", "report", "done"}

\* the loop was left by the break of the cap
StoppedAtCap == cl_pc \in {"report", "done"} /\ cl_idx <= Len(cl_plan)

\* the successful merge calls of the current run
AppliedCalls == {i \in MergeCalls : cl_calls[i].run = cl_run /\ cl_calls[i].ok}

\* C12: an apply run of the foods, units or tools cleanup applies at most
\* max_actions merges; an action whose source id is in the checkpoint is
\* skipped before the cap is tested and uses up no budget: every
\* checkpointed action gone past is counted as skipped whatever has been
\* applied, the loop is left by the cap only with max_actions merges applied,
\* and it is left by the cap only at an action that is not checkpointed.
C12_BudgetIgnoresCheckpointSkips ==
    (ApplyMode /\ InRun) =>
        /\ cl_applied <= cl_max_actions
        /\ Cardinality(AppliedCalls) = cl_applied
        /\ cl_skipped_checkpoint = Cardinality(PlanSkipped)
        /\ StoppedAtCap => /\ cl_applied = cl_max_actions
                           /\ cl_plan[cl_idx].source_id \notin cl_checkpoint

\* an apply run with max_actions = 1 has gone past a checkpointed action,
\* then applied one merge, and has stopped at the cap
C12_Witness ==
    /\ ApplyMode /\ cl_pc = "done" /\ cl_max_actions = 1
    /\ StoppedAtCap
    /\ cl_applied = 1
    /\ \E k \in PlanSkipped, j \in PlanDone :
          k < j /\ cl_plan[j].source_id \in cl_merged_source_ids \ cl_checkpoint

\* C13 as stated: at the end of an apply run actions_applied +
\* checkpoint_skipped is the number of merge actions of the plan, unless the
\* run reached the cap, where actions_applied is bounded by max_actions
C13_AppliedPlusSkippedIsTotal ==
    (ApplyMode /\ cl_pc = "done") =>
        /\ cl_report.actions_applied <= cl_max_actions
        /\ cl_report.actions_applied < cl_max_actions
              => cl_report.actions_applied + cl_report.checkpoint_skipped
                    = cl_report.merge_candidates_total

\* C13 (amended): at the end of an apply run that did not stop at the cap,
\* actions_applied + the merge actions that failed + checkpoint_skipped is
\* the number of merge actions of the plan; a run that stopped at the cap
\* reports actions_applied = max_actions and a smaller sum.  The failed
\* merge actions are actions_failed for foods and units; the failed count of
\* the tools report holds the failed creations too.
C13_AppliedFailedSkippedIsTotal ==
    (ApplyMode /\ cl_pc = "done") =>
        LET failed_merges == CountStatus(cl_report.attempted_actions, "failed")
            sum == cl_report.actions_applied + failed_merges + cl_report.checkpoint_skipped
        IN  /\ cl_report.actions_applied <= cl_max_actions
            /\ cl_report.actions_attempted = cl_report.actions_applied + failed_merges
            /\ cl_engine \in {"foods", "units"} => cl_report.actions_failed = failed_merges
            /\ cl_engine = "tools" => cl_report.actions_failed >= failed_merges
            /\ IF StoppedAtCap
               THEN /\ cl_report.actions_applied = cl_max_actions
                    /\ sum < cl_report.merge_candidates_total
               ELSE sum = cl_report.merge_candidates_total

\* an apply run has ended, not at the cap, with a merge applied, a merge
\* failed and an action skipped by the checkpoint
C13_Witness ==
    /\ ApplyMode /\ cl_pc = "done" /\ ~StoppedAtCap
    /\ cl_report.actions_applied > 0
    /\ cl_report.actions_failed > 0
    /\ cl_report.checkpoint_skipped > 0

-----------------------------------------------------------------------------
(* The merge plan of the foods cleanup *)

\* the number of ingredient references to a food id in the recipes
UsageOf(id) ==
    Cardinality({rk \in UNION {{<<r, k>> : k \in 1..Len(cl_recipes[r])} :
                                  r \in 1..Len(cl_recipes)} :
                    cl_recipes[rk[1]][rk[2]] = id})

\* the foods of the same group id and the same normalized name
DuplicatesOf(f) ==
    {g \in cl_remote : g.groupId = f.groupId
                          /\ normalize_name(g.name) = normalize_name(f.name)}

\* f has the highest usage of its duplicates and, of those with that usage,
\* the lowest id
IsCanonicalFood(f) ==
    \A g \in DuplicatesOf(f) \ {f} :
        \/ UsageOf(f.id) > UsageOf(g.id)
        \/ UsageOf(f.id) = UsageOf(g.id) /\ f.id < g.id

\* the plan of the first foods run is in cl_plan, built from the foods the
\* server holds
FoodsPlanBuilt == cl_engine = "foods" /\ cl_run = "first" /\ InRun

\* C14: in every duplicate group of foods (same group id, same normalized
\* name, at least two members) the canonical food is the member with the
\* highest usage count, ties broken by the lowest id, and the plan holds
\* exactly one merge action per non-canonical member, pointing at the
\* canonical id, and nothing else.
C14_FoodsCanonicalSelection ==
    FoodsPlanBuilt =>
        /\ \A f \in cl_remote :
              LET mine == {k \in 1..Len(cl_plan) : cl_plan[k].source_id = f.id}
              IN  IF Cardinality(DuplicatesOf(f)) >= 2 /\ ~IsCanonicalFood(f)
                  THEN /\ Cardinality(mine) = 1
                       /\ \E c \in DuplicatesOf(f) :
                             /\ IsCanonicalFood(c)
                             /\ \A k \in mine : cl_plan[k].target_id = c.id
                  ELSE mine = {}
        /\ \A k \in 1..Len(cl_plan) : \E f \in cl_remote : cl_plan[k].source_id = f.id

\* the spec's example: food 1 and food 2 are the two members of a group,
\* food 1 is used more often than food 2, and the plan is the one action
\* source 2, target 1
C14_Witness ==
    /\ FoodsPlanBuilt
    /\ \E f \in cl_remote, g \in cl_remote :
          /\ f.id = 1 /\ g.id = 2 /\ DuplicatesOf(f) = {f, g}
          /\ UsageOf(1) > UsageOf(2)
    /\ Len(cl_plan) = 1
    /\ cl_plan[1].source_id = 2 /\ cl_plan[1].target_id = 1

-----------------------------------------------------------------------------
(* The canonical units an apply run creates *)

\* the units the server held before the first run
InitialUnits == {u \in cl_remote : u.id <= MaxEntities}

\* the units created by a run; create_unit returned their ids
CreatedUnits == cl_remote \ InitialUnits

\* the first units run, in apply mode, is in its loop or past it
UnitsApplyRun == cl_engine = "units" /\ ApplyMode /\ cl_run = "first" /\ InRun

\* the (alias unit, canonical norm) pairs of the claim: the unit's name is an
\* alias of a canonical of the file that no unit of the server has as name
AliasOfMissingCanonical ==
    LET loaded == load_aliases(cl_config_file)
    IN  {<<u, pair[2]>> : u \in InitialUnits, pair \in loaded.alias_to_canonical} \cap
        {uc \in InitialUnits \X {pair[2] : pair \in loaded.alias_to_canonical} :
            /\ \E pair \in loaded.alias_to_canonical :
                  pair[1] = normalize_name(uc[1].name) /\ pair[2] = uc[2]
            /\ \A v \in InitialUnits : normalize_name(v.name) # uc[2]}

\* C15: when the alias file names a canonical unit that no remote unit has as
\* name and a remote unit matches one of its aliases, an apply run creates
\* the canonical first and then merges the alias unit into the id the
\* creation returned: once the creation has returned an id, the plan holds
\* the merge of the alias unit into that id and every merge call for the
\* alias unit goes to that id; and no merge call goes to a created unit
\* before the create call that returned its id.
C15_CanonicalCreatedBeforeMerge ==
    /\ UnitsApplyRun =>
          \A uc \in AliasOfMissingCanonical, c \in CreatedUnits :
             normalize_name(c.name) = uc[2]
                => /\ \E k \in 1..Len(cl_plan) :
                         cl_plan[k].source_id = uc[1].id /\ cl_plan[k].target_id = c.id
                   /\ \A j \in MergeCalls :
                         cl_calls[j].source_id = uc[1].id => cl_calls[j].target_id = c.id
    /\ (cl_engine = "units" /\ ApplyMode) =>
          \A j \in MergeCalls :
             cl_calls[j].target_id > MaxEntities
                => \E i \in 1..Len(cl_calls) :
                      /\ i < j /\ cl_calls[i].op = "create_unit" /\ cl_calls[i].ok
                      /\ cl_calls[i].target_id = cl_calls[j].target_id

\* an apply run has created the missing canonical and then merged the alias
\* unit into the id of the created unit
C15_Witness ==
    /\ UnitsApplyRun /\ cl_pc = "done"
    /\ \E uc \in AliasOfMissingCanonical, c \in CreatedUnits, j \in MergeCalls :
          /\ normalize_name(c.name) = uc[2]
          /\ cl_calls[j].source_id = uc[1].id /\ cl_calls[j].target_id = c.id
          /\ cl_calls[j].ok
          /\ \E i \in 1..Len(cl_calls) :
                i < j /\ cl_calls[i].op = "create_unit" /\ cl_calls[i].target_id = c.id

-----------------------------------------------------------------------------
(* An alias file that maps one alias to two canonicals *)

\* the alias file of the units run gives, under two canonical names that
\* differ after normalization, two aliases that are equal after normalization
AmbiguousAliasFile ==
    /\ cl_engine = "units"
    /\ \E i \in 1..Len(cl_config_file), j \in 1..Len(cl_config_file) :
          /\ normalize_name(cl_config_file[i].canonical)
                # normalize_name(cl_config_file[j].canonical)
          /\ \E a \in 1..Len(cl_config_file[i].aliases),
                b \in 1..Len(cl_config_file[j].aliases) :
                /\ Strip(cl_config_file[i].aliases[a]) # <<>>
                /\ normalize_name(cl_config_file[i].aliases[a])
                      = normalize_name(cl_config_file[j].aliases[b])

\* C16: when the alias file maps the same alias, by normalized name, to two
\* different canonicals, the units run raises in load_aliases: no remote
\* call (list, create or merge) is made, no report is written, and the
\* checkpoint file and the remote units stay as they are.
C16_AmbiguousAliasIsFatal ==
    /\ [](AmbiguousAliasFile =>
            /\ cl_calls = <<>>
            /\ cl_report = NoReport
            /\ cl_pc \in {"start", "raised"})
    /\ [][AmbiguousAliasFile => /\ cl_checkpoint_file' = cl_checkpoint_file
                                /\ cl_remote' = cl_remote]_vars

\* an apply run with such an alias file, and units to merge, has raised
C16_Witness ==
    /\ AmbiguousAliasFile /\ ApplyMode /\ cl_pc = "raised" /\ cl_run = "first"
    /\ \E u \in cl_remote, v \in cl_remote :
          u.id # v.id /\ normalize_name(u.name) = normalize_name(v.name)

-----------------------------------------------------------------------------
(* run_parser over several candidates, one line per parser response *)

ParserRunNext ==
    \/ ListRecipes(MaxCandidates)
    \/ GetRecipe
    \/ ParseStrategy(1)
    \/ NormalizeItem
    \/ CommitRecipe
    \/ FinishParser

SpecParserRun == ParserInit /\ [][ParserRunNext]_vars

\* the step fetches the next candidate and client.get_recipe returns
FetchedOk == rp_idx' = rp_idx + 1 /\ rp_calls'[1].ok

\* a structured ingredient list that is not empty and whose every entry has
\* a food reference
EveryEntryHasFood(items) ==
    /\ items # <<>>
    /\ \A i \in 1..Len(items) : ~items[i].isstr /\ ~items[i].food_null

\* C17: run_parser ends a recipe in skipped_already_parsed, with no parser
\* request and no write, exactly when its structured ingredient list is not
\* empty and every entry has a non-null food reference; a list in which some
\* entry has no food reference is not treated as already parsed.
C17_AlreadyParsedDetection ==
    [][FetchedOk =>
          /\ (rp_summary'.skipped_already_parsed = rp_summary.skipped_already_parsed + 1)
                <=> EveryEntryHasFood(rp_items')
          /\ EveryEntryHasFood(rp_items')
                => /\ rp_pc' = "fetch"
                   /\ rp_reviews' = rp_reviews /\ rp_successes' = rp_successes]_vars

\* the candidates the loop has finished with
Handled == IF rp_pc \in {"parse", "normalize"} THEN rp_idx - 1 ELSE rp_idx

\* the step is a failed client.get_recipe or a failed
\* client.patch_recipe_ingredients
FailedFetch == rp_idx' = rp_idx + 1 /\ ~rp_calls'[1].ok
FailedPatch ==
    /\ rp_pc = "normalize" /\ rp_calls' # <<>>
    /\ rp_calls'[1].op = "patch_recipe_ingredients" /\ ~rp_calls'[1].ok

\* C18: a failed fetch or a failed PATCH of one recipe does not end the run:
\* run_parser appends one review record for that recipe, with the error
\* text, and goes on to the next candidate; the run returns only when every
\* candidate has been fetched, and every candidate is then in the reviews,
\* in the successes or in one of the two skip counts.
C18_RecipeFailureDoesNotAbort ==
    /\ [][(FailedFetch \/ FailedPatch) =>
             /\ Len(rp_reviews') = Len(rp_reviews) + 1
             /\ SubSeq(rp_reviews', 1, Len(rp_reviews)) = rp_reviews
             /\ LET review == rp_reviews'[Len(rp_reviews')]
                IN  /\ review.slug = rp_idx'
                    /\ review.reason = (IF FailedFetch THEN "recipe_fetch_failed"
                                        ELSE "patch_failed")
                    /\ review.error = RequestError
             /\ rp_successes' = rp_successes
             /\ rp_pc' = "fetch"]_vars
    /\ [](rp_pc = "fetch" => rp_idx <= rp_total)
    /\ []((rp_pc = "returned" /\ rp_total > 0) =>
             /\ rp_idx = rp_total
             /\ Len(rp_reviews) + Len(rp_successes) + rp_summary.skipped_empty
                    + rp_summary.skipped_already_parsed = rp_total)

\* the run has returned after a failed fetch of the first candidate and a
\* failed PATCH of a later one, with a candidate handled after each failure
C18_Witness ==
    /\ rp_pc = "returned" /\ rp_total >= 2
    /\ \E i \in 1..Len(rp_reviews), j \in 1..Len(rp_reviews) :
          /\ rp_reviews[i].reason = "recipe_fetch_failed"
          /\ rp_reviews[j].reason = "patch_failed"
          /\ rp_reviews[i].slug < rp_total \/ rp_reviews[j].slug < rp_total

-----------------------------------------------------------------------------
(* Properties of the classification engine: a failing recipe PATCH *)

\* the ways update_recipe_metadata ends when its PATCH fails: an answer other
\* than 200, or requests.patch raising
FailedPatchOutcomes == {"failed", "raised"}

\* the PATCH of this thread failed in this step
PatchFailedNow(w) ==
    \E i \in 1..Len(NewUpdates(w)) : NewUpdates(w)[i].kind \in FailedPatchOutcomes

\* C19 (a failed PATCH does not abort the batch): whichever way the PATCH of
\* a recipe fails, an error status or a transport failure, the failure is
\* counted once in update_failures, the cache keeps what it held, in memory
\* and on disk, and the call goes on with the rest of its batch instead of
\* ending in an exception.
C19_FailedPatchDoesNotAbortBatch ==
    [][\A w \in Workers :
          PatchFailedNow(w) =>
             /\ cat_stats'["update_failures"] = cat_stats["update_failures"] + 1
             /\ cat_cache' = cat_cache /\ cat_cache_file' = cat_cache_file
             /\ cat_worker'[w].pc # "crashed"]_vars

-----------------------------------------------------------------------------
(* plugin_server.py: POST parser/runs, one thread per request *)

\* ParserRunController.snapshot
snapshot(controller) == controller

\* ParserRunController.start_dry_run, one atomic call: None while a run is
\* active, else the snapshot of the run it starts
start_dry_run(controller) ==
    IF controller.status = "running"
    THEN [result |-> NoSnapshot, controller |-> controller]
    ELSE LET started == [run_id |-> controller.run_id + 1, status |-> "running"]
         IN  [result |-> started, controller |-> started]

\* ParserRunController.complete_success and complete_failure
complete_success(controller) == [controller EXCEPT !.status = "succeeded"]
complete_failure(controller) == [controller EXCEPT !.status = "failed"]

\* _auth_context: what it returns for no token, a token Mealie refuses, a
\* failing Mealie, a plain user and an admin
AuthContext(authenticated, admin, auth_error) ==
    [authenticated |-> authenticated, admin |-> admin, auth_error |-> auth_error]
AuthContexts ==
    {AuthContext(FALSE, FALSE, "missing_token"), AuthContext(FALSE, FALSE, "invalid_token"),
     AuthContext(FALSE, FALSE, "mealie_auth_failed"),
     AuthContext(TRUE, FALSE, ""), AuthContext(TRUE, TRUE, "")}

Response(code, error, snap) == [code |-> code, error |-> error, snapshot |-> snap]

\* _require_admin: the response it writes, NoResponse when it returns True
require_admin(context) ==
    IF ~context.authenticated
    THEN IF context.auth_error \in {"missing_token", "invalid_token"}
         THEN Response(401, context.auth_error, NoSnapshot)
         ELSE Response(502, "mealie_auth_failed", NoSnapshot)
    ELSE IF ~context.admin THEN Response(403, "admin_required", NoSnapshot)
    ELSE NoResponse

\* a faulty do_POST: the result of start_dry_run is not tested
starts_worker_always(snap) == TRUE

\* do_POST: `if snapshot is None: ... return`, else the worker is started
starts_worker(snap) == snap # NoSnapshot

\* do_POST up to the call of the run controller: the path and the admin gate
ReceivePost(r, path_known, context) ==
    /\ srv_request[r].pc = "new"
    /\ LET refused == IF ~path_known THEN Response(404, "not_found", NoSnapshot)
                      ELSE require_admin(context)
       IN  srv_request' = [srv_request EXCEPT ![r] =
              IF refused # NoResponse
              THEN [@ EXCEPT !.pc = "responded", !.response = refused]
              ELSE [@ EXCEPT !.pc = "admitted"]]
    /\ UNCHANGED <<srv_controller, srv_worker>>
    /\ UNCHANGED not_srv_vars

\* do_POST: snapshot = self.server.run_controller.start_dry_run()
StartDryRun(r) ==
    /\ srv_request[r].pc = "admitted"
    /\ LET call == start_dry_run(srv_controller)
       IN  /\ srv_controller' = call.controller
           /\ srv_request' = [srv_request EXCEPT ![r] =
                 [@ EXCEPT !.pc = IF starts_worker(call.result) THEN "accepted" ELSE "conflict",
                           !.snapshot = call.result,
                           !.found = srv_controller.status]]
    /\ UNCHANGED srv_worker
    /\ UNCHANGED not_srv_vars

\* do_POST: the 409 answer, with the snapshot read when it is written
RespondConflict(r) ==
    /\ srv_request[r].pc = "conflict"
    /\ srv_request' = [srv_request EXCEPT ![r] =
          [@ EXCEPT !.pc = "responded",
                    !.response = Response(409, "run_in_progress", snapshot(srv_controller))]]
    /\ UNCHANGED <<srv_controller, srv_worker>>
    /\ UNCHANGED not_srv_vars

\* do_POST: the worker thread is started and 202 is written
StartWorker(r) ==
    /\ srv_request[r].pc = "accepted"
    /\ srv_worker' = [srv_worker EXCEPT ![r] =
          [pc |-> "running", run_id |-> srv_request[r].snapshot.run_id]]
    /\ srv_request' = [srv_request EXCEPT ![r] =
          [@ EXCEPT !.pc = "responded",
                    !.response = Response(202, "", srv_request[r].snapshot)]]
    /\ UNCHANGED srv_controller
    /\ UNCHANGED not_srv_vars

\* _execute_parser_run: run_parser returns or raises
ExecuteParserRun(r, succeeded) ==
    /\ srv_worker[r].pc = "running"
    /\ srv_controller' = IF succeeded THEN complete_success(srv_controller)
                         ELSE complete_failure(srv_controller)
    /\ srv_worker' = [srv_worker EXCEPT ![r].pc = "done"]
    /\ UNCHANGED srv_request
    /\ UNCHANGED not_srv_vars

ServerInit == srv_Idle /\ rp_Idle /\ cl_Idle /\ cat_Idle /\ tools_Idle

ServerNext ==
    \/ \E r \in Requests, path_known \in BOOLEAN, context \in AuthContexts :
          ReceivePost(r, path_known, context)
    \/ \E r \in Requests : StartDryRun(r)
    \/ \E r \in Requests : RespondConflict(r)
    \/ \E r \in Requests : StartWorker(r)
    \/ \E r \in Requests, succeeded \in BOOLEAN : ExecuteParserRun(r, succeeded)

SpecServer == ServerInit /\ [][ServerNext]_vars

-----------------------------------------------------------------------------
(* Properties of the companion server *)

\* the requests whose worker thread is executing a parser run
ActiveRuns == {r \in Requests : srv_worker[r].pc = "running"}

\* the requests that started a worker thread
StartedRuns == {r \in Requests : srv_worker[r] # NoWorker}

Responded(r) == srv_request[r].pc = "responded"

\* the request called start_dry_run while a run was active, while none was
MetActiveRun(r) == srv_request[r].found = "running"
MetNoActiveRun(r) == srv_request[r].found \notin {"", "running"}

\* the request writes its 409 answer in this step
WritesConflict(r) == srv_request[r].pc = "conflict" /\ Responded(r)'

\* C20 (single active run): under any interleaving of concurrent admin POST
\* requests to parser/runs at most one parser run is executing at any time;
\* a request that reaches the run controller while a run is active leaves the
\* controller as it is, starts no worker and is answered 409 with the
\* snapshot current when the answer is written; a request that reaches it
\* while none is active is answered 202 with the snapshot of the run it
\* starts, and starts exactly that one run.
C20_SingleActiveRun ==
    /\ [](Cardinality(ActiveRuns) <= 1)
    /\ [](\A r \in Requests :
             /\ MetActiveRun(r) =>
                   /\ r \notin StartedRuns
                   /\ Responded(r) => srv_request[r].response.code = 409
             /\ MetNoActiveRun(r) /\ Responded(r) =>
                   /\ srv_request[r].response.code = 202
                   /\ srv_request[r].response.snapshot.status = "running"
                   /\ r \in StartedRuns
                   /\ srv_worker[r].run_id = srv_request[r].response.snapshot.run_id
                   /\ \A q \in StartedRuns \ {r} : srv_worker[q].run_id # srv_worker[r].run_id)
    /\ [][\A r \in Requests :
             /\ WritesConflict(r) =>
                   srv_request'[r].response.snapshot = snapshot(srv_controller)
             /\ MetActiveRun(r)' /\ ~MetActiveRun(r) => srv_controller' = srv_controller]_vars

\* of three requests one was refused with 409 while a run was executing and
\* another started a second run after the first had ended
C20_Witness ==
    \E r, q, p \in Requests :
       /\ Responded(r) /\ srv_request[r].response.code = 409
       /\ Responded(q) /\ srv_request[q].response.code = 202 /\ srv_worker[q].pc = "done"
       /\ Responded(p) /\ srv_request[p].response.code = 202 /\ srv_worker[p].pc = "running"
       /\ srv_worker[p].run_id = 2

-----------------------------------------------------------------------------
(* Properties of the cleanup engines: cap, failures and report *)

\* a merge call is issued in this step
IssuesMergeCall ==
    /\ Len(cl_calls') = Len(cl_calls) + 1
    /\ cl_calls'[Len(cl_calls')].op \in MergeOps

\* C25 as stated (the cap bounds the attempts): in an apply run the number of
\* merge actions attempted, merged plus failed, never exceeds max_actions.
C25_CapBoundsAttempted ==
    executable /\ cl_pc \in {"loop", "report"} => Len(cl_attempted) <= cl_max_actions

\* C25 as amended (the cap bounds the merges applied): in an apply run the
\* number of merges applied never exceeds max_actions and no merge call is
\* issued once max_actions merges have been applied; a failed merge call does
\* not use up the budget, so the number of actions attempted is at most
\* max_actions plus the number of failed merge calls.
C25_CapBoundsApplied ==
    /\ [](executable /\ cl_pc \in {"loop", "report"} =>
             /\ CountStatus(cl_attempted, "merged") = cl_applied
             /\ cl_applied <= cl_max_actions
             /\ Len(cl_attempted) <= cl_max_actions + CountStatus(cl_attempted, "failed"))
    /\ [][IssuesMergeCall => cl_applied < cl_max_actions]_vars

\* an apply run has attempted more actions than max_actions
C25_Witness ==
    /\ executable /\ cl_pc = "loop"
    /\ Len(cl_attempted) > cl_max_actions
    /\ cl_applied = cl_max_actions

\* the merge call issued in this step raised
MergeCallRaised == IssuesMergeCall /\ ~cl_calls'[Len(cl_calls')].ok

\* C26 (a failing merge is isolated): a merge call that raises adds one to
\* the failed counter and one entry with status failed and the error to the
\* attempted actions; its source id enters neither the checkpoint in memory
\* nor the checkpoint file, the applied count is unchanged, and the loop goes
\* on with the next action of the plan; the report of the run shows the entry.
C26_FailedMergeIsIsolated ==
    /\ [][MergeCallRaised =>
             LET call == cl_calls'[Len(cl_calls')]
                 entry == cl_attempted'[Len(cl_attempted')]
             IN  /\ cl_failed' = cl_failed + 1
                 /\ Len(cl_attempted') = Len(cl_attempted) + 1
                 /\ entry.source_id = call.source_id /\ entry.status = "failed"
                 /\ entry.error = RequestError
                 /\ cl_merged_source_ids' = cl_merged_source_ids
                 /\ call.source_id \notin cl_merged_source_ids'
                 /\ cl_checkpoint_file' = cl_checkpoint_file
                 /\ cl_applied' = cl_applied
                 /\ cl_pc' = "loop" /\ cl_idx' = cl_idx + 1]_vars
    /\ [](cl_pc = "done" /\ cl_report.mode = "apply" =>
             /\ cl_report.attempted_actions = cl_attempted
             /\ cl_report.actions_failed >= CountStatus(cl_attempted, "failed")
             /\ \A i \in MergeCalls :
                   cl_calls[i].run = cl_run /\ ~cl_calls[i].ok =>
                      \E k \in 1..Len(cl_attempted) :
                         /\ cl_attempted[k].source_id = cl_calls[i].source_id
                         /\ cl_attempted[k].status = "failed")

\* in one run a merge call raised and the merge of a later action was applied
C26_Witness ==
    \E i, j \in 1..Len(cl_attempted) :
       /\ i < j
       /\ cl_attempted[i].status = "failed" /\ cl_attempted[j].status = "merged"
       /\ cl_attempted[i].source_id \notin cl_checkpoint_file

\* the source ids of the plan, of the reported actions
PlanSources == {cl_plan[i].source_id : i \in 1..Len(cl_plan)}
ReportedSources ==
    {cl_report.attempted_actions[i].source_id : i \in 1..Len(cl_report.attempted_actions)}

AuditReportWritten == cl_pc = "done" /\ cl_report.mode = "audit"

\* C27 (audit reports the full plan): the planned actions reported by an
\* audit run hold every merge action of the plan, the actions whose source
\* id is in the checkpoint included.
C27_AuditReportsFullPlan ==
    AuditReportWritten =>
       /\ Len(cl_report.attempted_actions) = Len(cl_plan)
       /\ ReportedSources = PlanSources

UnitsPlanBuilt == cl_engine = "units" /\ cl_pc \in {"loop", "report"}

\* C28 (unmapped units are report-only): no unit listed as unmapped, its
\* normalized name being neither an alias nor a canonical name of the alias
\* file, is the source of a merge action of the units plan.
C28_UnmappedUnitsNeverMerged ==
    UnitsPlanBuilt =>
       \A i \in 1..Len(cl_plan) : cl_plan[i].source_name \notin cl_unmapped

-----------------------------------------------------------------------------
(* The units plan of the first run *)

FirstUnitsRun == cl_engine = "units" /\ cl_run = "first" /\ cl_pc \in {"loop", "report", "done"}

\* units_by_norm and the created canonicals of the first run
ListedByNorm == units_by_norm(InitialUnits)
CreatedByNorm ==
    [n \in {normalize_name(c.name) : c \in CreatedUnits} |->
        (CHOOSE c \in CreatedUnits : normalize_name(c.name) = n).id]

\* the actions of the two passes of run()
ExactNow == ExactDuplicateActions(ListedByNorm, CreatedByNorm)
AliasNow == AliasActions(ListedByNorm, CreatedByNorm, load_aliases(cl_config_file))

\* the source ids both passes generate an action for
ContestedSources == {a.source_id : a \in ExactNow} \cap {a.source_id : a \in AliasNow}

\* the two passes, one after the other in either order
GenerationOrders ==
    {SortSet(ExactNow, BySourceId) \o SortSet(AliasNow, BySourceId),
     SortSet(AliasNow, BySourceId) \o SortSet(ExactNow, BySourceId)}

\* C29 (alias precedence): when an exact-duplicate merge and an alias-driven
\* merge both apply to a source id, the units plan holds exactly one action
\* for that source, the alias-driven one, and the deduplication keeps the
\* alias-driven action whichever of the two was generated first.
C29_AliasPrecedence ==
    FirstUnitsRun =>
       \A s \in ContestedSources :
          /\ \E i \in 1..Len(cl_plan) :
                /\ cl_plan[i].source_id = s
                /\ cl_plan[i] \in AliasNow
                /\ \A j \in 1..Len(cl_plan) : cl_plan[j].source_id = s => j = i
          /\ \A order \in GenerationOrders :
                DedupActions(order, EmptyMap)[s] \in AliasNow

\* a unit is both an exact duplicate and an alias of a canonical
C29_Witness == FirstUnitsRun /\ ContestedSources # {}

-----------------------------------------------------------------------------
(* foods_manager.py, units_manager.py: the merge and the checkpoint write of
   an apply run, statement by statement *)

\* an iteration of the loop that issues no merge call: checkpoint skip, cap
LoopStepWithoutCall(merge_op) == MergeLoopStep(merge_op) /\ cl_calls' = cl_calls

\* merge_food / merge_unit is called; when it returns, applied and the ids
\* in memory are updated and save_checkpoint is about to run
CallMerge(merge_op) ==
    /\ cl_pc = "loop" /\ cl_idx <= Len(cl_plan)
    /\ cl_plan[cl_idx].source_id \notin cl_checkpoint
    /\ ~cap_reached /\ executable
    /\ LET action == cl_plan[cl_idx]
       IN  \E ok \in BOOLEAN :
              /\ cl_calls' = Append(cl_calls, MergeCall(merge_op, action, ok))
              /\ IF ok
                 THEN /\ cl_applied' = cl_applied + 1
                      /\ cl_merged_source_ids' = cl_merged_source_ids \cup {action.source_id}
                      /\ cl_merged_away' = cl_merged_away \cup {action.source_id}
                      /\ cl_pc' = "save_checkpoint"
                      /\ UNCHANGED <<cl_idx, cl_failed, cl_attempted, cl_checkpoint_file>>
                 ELSE /\ MergeFailed(action)
                      /\ cl_idx' = cl_idx + 1
                      /\ UNCHANGED cl_pc
    /\ UNCHANGED <<cl_config, cl_remote, cl_run, cl_plan, cl_checkpoint, cl_skipped_checkpoint,
                   cl_created, cl_unmapped, cl_fuzzy_candidates, cl_report, not_cl_vars>>

cl_merge_vars == <<cl_config, cl_remote, cl_merged_away, cl_run, cl_plan, cl_checkpoint,
                   cl_merged_source_ids, cl_applied, cl_failed, cl_skipped_checkpoint,
                   cl_created, cl_unmapped, cl_fuzzy_candidates, cl_report, cl_calls>>

\* save_checkpoint: write_text opens the file for writing, which empties it
OpenCheckpointFile ==
    /\ cl_pc = "save_checkpoint"
    /\ cl_checkpoint_file' = {}
    /\ cl_pc' = "write_checkpoint"
    /\ UNCHANGED <<cl_merge_vars, cl_idx, cl_attempted, not_cl_vars>>

\* save_checkpoint: the ids are written out; the entry is appended and the
\* loop goes to the next action
WriteCheckpointFile ==
    /\ cl_pc = "write_checkpoint"
    /\ save_checkpoint(cl_merged_source_ids)
    /\ cl_attempted' = Append(cl_attempted, AttemptedEntry(cl_plan[cl_idx], "merged"))
    /\ cl_idx' = cl_idx + 1
    /\ cl_pc' = "loop"
    /\ UNCHANGED <<cl_merge_vars, not_cl_vars>>

\* the process is stopped inside the loop of an apply run
InterruptRun ==
    /\ cl_pc \in {"loop", "save_checkpoint", "write_checkpoint"} /\ executable
    /\ cl_pc' = "interrupted"
    /\ UNCHANGED <<cl_merge_vars, cl_checkpoint_file, cl_idx, cl_attempted, not_cl_vars>>

\* apply runs of the foods and the units engine
CheckpointInit ==
    /\ CleanupInit
    /\ cl_engine \in {"foods", "units"} /\ executable

FoodsLoopStepWithoutCall == cl_engine = "foods" /\ LoopStepWithoutCall("merge_food")
FoodsCallMerge == cl_engine = "foods" /\ CallMerge("merge_food")
UnitsLoopStepWithoutCall == cl_engine = "units" /\ LoopStepWithoutCall("merge_unit")
UnitsCallMerge == cl_engine = "units" /\ CallMerge("merge_unit")

CheckpointNext ==
    \/ FoodsStart
    \/ FoodsLoopStepWithoutCall
    \/ FoodsCallMerge
    \/ FoodsReport
    \/ UnitsStart
    \/ UnitsLoopStepWithoutCall
    \/ UnitsCallMerge
    \/ UnitsReport
    \/ OpenCheckpointFile
    \/ WriteCheckpointFile
    \/ InterruptRun

SpecCheckpoint == CheckpointInit /\ [][CheckpointNext]_vars

\* the source ids merged by the current run
MergedThisRun ==
    {cl_calls[i].source_id : i \in {j \in MergeCalls : cl_calls[j].run = cl_run /\ cl_calls[j].ok}}

\* the ids the checkpoint should hold and the file does not
LostFromCheckpoint == (cl_checkpoint \cup MergedThisRun) \ cl_checkpoint_file

\* C24 (the checkpoint is persisted merge by merge): when a merge call is
\* issued the checkpoint file holds the source id of every merge applied
\* before it; between two merge calls, once the write is done, the file
\* equals the checkpoint loaded at start plus every source id merged so far
\* in the run; and a run stopped at any point leaves a checkpoint file that
\* lacks at most one of these ids, that of the merge in flight.
C24_CheckpointPersistedPerMerge ==
    /\ [][IssuesMergeCall => MergedThisRun \subseteq cl_checkpoint_file]_vars
    /\ [](cl_pc = "loop" => cl_checkpoint_file = cl_checkpoint \cup MergedThisRun)
    /\ [](cl_pc = "interrupted" => Cardinality(LostFromCheckpoint) <= 1)

-----------------------------------------------------------------------------
(* The foods engine with allow_fuzzy: names long enough for a similarity of  *)
(* 0.92, in one group and in two.                                            *)

N_abcabc == <<"a", "b", "c", "a", "b", "c">>
N_ABcabc == <<"A", "B", "c", "a", "b", "c">>
N_abcabcs == <<"a", "b", "c", "a", "b", "c", "s">>
N_abcabx == <<"a", "b", "c", "a", "b", "x">>

\* an exact duplicate up to case, a name one letter longer (ratio 12/13), a
\* name with one letter changed (ratio 10/12), and the first name in another group
FuzzyFoodProfiles == {[name |-> N_abcabc, groupId |-> G1], [name |-> N_ABcabc, groupId |-> G1],
                      [name |-> N_abcabcs, groupId |-> G1], [name |-> N_abcabx, groupId |-> G1],
                      [name |-> N_abcabc, groupId |-> G2]}

FoodsFuzzyInit ==
    /\ cl_engine = "foods"
    /\ cl_allow_fuzzy \in BOOLEAN
    /\ cl_apply \in BOOLEAN /\ cl_dry_run = FALSE
    /\ cl_max_actions \in (IF cl_apply THEN {1, MaxCap} ELSE {1})
    /\ cl_config_file = <<>>
    /\ \E profile \in [1..MaxEntities -> FuzzyFoodProfiles] :
          cl_remote = {RemoteEntity(i, profile[i].name, profile[i].groupId) : i \in 1..MaxEntities}
    /\ cl_merged_away = {}
    /\ cl_recipes \in {<<>>, << <<2>> >>}
    /\ cl_checkpoint_file = {}
    /\ cl_run = "none" /\ cl_pc = "start"
    /\ cl_plan = <<>> /\ cl_checkpoint = {} /\ cl_merged_source_ids = {} /\ cl_idx = 1
    /\ cl_applied = 0 /\ cl_failed = 0 /\ cl_skipped_checkpoint = 0
    /\ cl_attempted = <<>> /\ cl_created = <<>> /\ cl_unmapped = {}
    /\ cl_fuzzy_candidates = {}
    /\ cl_report = NoReport /\ cl_calls = <<>>
    /\ rp_Idle /\ cat_Idle /\ srv_Idle /\ tools_Idle

FoodsFuzzyNext ==
    \/ FoodsStart
    \/ FoodsMergeStep
    \/ FoodsReport

SpecFoodsFuzzy == FoodsFuzzyInit /\ [][FoodsFuzzyNext]_vars

\* the food of the server with this id
FoodById(id) == CHOOSE f \in cl_remote : f.id = id

\* the merge call pairs the two foods of a fuzzy candidate
CallPairsCandidate(call, candidate) ==
    {call.source_id, call.target_id} = {candidate.food_a_id, candidate.food_b_id}

\* C30 (foods merges are exact duplicates only): every merge_food call has a
\* source and a target that are two foods of the server with the same group
\* id and the same normalized name; every fuzzy candidate is a pair of foods
\* of one group with different normalized names and a similarity of at least
\* 0.92, no action of the plan and no merge call pairs the two foods of a
\* fuzzy candidate, and the candidates are what the report shows.
C30_MergesAreExactDuplicatesOnly ==
    /\ \A i \in 1..Len(cl_calls) :
          cl_calls[i].op = "merge_food" =>
             /\ cl_calls[i].source_id # cl_calls[i].target_id
             /\ \E s \in cl_remote : s.id = cl_calls[i].source_id
             /\ \E t \in cl_remote : t.id = cl_calls[i].target_id
             /\ FoodById(cl_calls[i].source_id).groupId = FoodById(cl_calls[i].target_id).groupId
             /\ normalize_name(FoodById(cl_calls[i].source_id).name)
                  = normalize_name(FoodById(cl_calls[i].target_id).name)
    /\ \A c \in cl_fuzzy_candidates :
          /\ cl_allow_fuzzy
          /\ FoodById(c.food_a_id).groupId = FoodById(c.food_b_id).groupId
          /\ normalize_name(c.food_a_name) # normalize_name(c.food_b_name)
          /\ 100 * c.similarity.num >= FUZZY_RATIO_PERCENT * c.similarity.den
          /\ \A i \in 1..Len(cl_calls) :
                cl_calls[i].op = "merge_food" => ~CallPairsCandidate(cl_calls[i], c)
          /\ \A k \in 1..Len(cl_plan) : ~CallPairsCandidate(cl_plan[k], c)
    /\ cl_pc = "done" /\ cl_report # NoReport =>
          cl_report.fuzzy_candidates = cl_fuzzy_candidates

\* an apply run with allow_fuzzy has ended: it found a fuzzy candidate and
\* one of its merge calls succeeded
C30_Witness ==
    /\ cl_engine = "foods" /\ cl_allow_fuzzy /\ executable /\ cl_pc = "done"
    /\ cl_fuzzy_candidates # {}
    /\ cl_report # NoReport /\ cl_report.fuzzy_candidates # {}
    /\ \E i \in 1..Len(cl_calls) : cl_calls[i].op = "merge_food" /\ cl_calls[i].ok

-----------------------------------------------------------------------------
(* The HTTP client: one request of MealieApiClient._request_raw through the  *)
(* session's HTTPAdapter and the retry policy of _build_retry_policy.        *)

\* the methods the client's operations use
HttpMethods == {"GET", "POST", "PUT", "PATCH", "DELETE"}

\* responses of the server: status code, and whether a Retry-After header came
HttpResponses ==
    {[status_code |-> c, retry_after |-> FALSE] : c \in {200, 404, 429, 500, 503}}
      \cup {[status_code |-> c, retry_after |-> TRUE] : c \in {429, 503}}

\* retry_count = max(self.retries, 0)
retry_count == IF http_retries > 0 THEN http_retries ELSE 0

\* urllib3: Retry.DEFAULT_ALLOWED_METHODS and Retry.RETRY_AFTER_STATUS_CODES
DEFAULT_ALLOWED_METHODS == {"HEAD", "GET", "PUT", "DELETE", "OPTIONS", "TRACE"}

RETRY_AFTER_STATUS_CODES == {413, 429, 503}

\* whether _build_retry_policy returned the Retry object it configures; if not
\* it returned an integer, from which the adapter builds a default Retry
custom_policy == retry_count > 0 /\ http_retry_class

\* allowed_methods=frozenset({"GET", "POST", "PUT", "PATCH", "DELETE"})
allowed_methods ==
    IF custom_policy THEN {"GET", "POST", "PUT", "PATCH", "DELETE"} ELSE DEFAULT_ALLOWED_METHODS

\* status_forcelist=(429, 500, 502, 503, 504)
status_forcelist == IF custom_policy THEN {429, 500, 502, 503, 504} ELSE {}

\* urllib3 Retry.is_retry(method, status_code, has_retry_after)
is_retry(method, response) ==
    /\ method \in allowed_methods
    /\ \/ response.status_code \in status_forcelist
       \/ /\ http_remaining # 0
          /\ response.retry_after
          /\ response.status_code \in RETRY_AFTER_STATUS_CODES

\* _request_raw is called; session.request: the adapter sends the request for
\* the first time
HttpSend ==
    /\ http_pc \in {"idle", "returned", "raised"}
    /\ http_pc' = "response"
    /\ http_method' \in HttpMethods
    /\ http_sent' = 1
    /\ http_remaining' = retry_count
    /\ http_response' \in HttpResponses
    /\ UNCHANGED <<http_retries, http_retry_class, not_http_vars>>

\* urlopen: is_retry holds and Retry.increment is not exhausted: send again
HttpRetry ==
    /\ http_pc = "response"
    /\ is_retry(http_method, http_response)
    /\ http_remaining > 0
    /\ http_remaining' = http_remaining - 1
    /\ http_sent' = http_sent + 1
    /\ http_response' \in HttpResponses
    /\ UNCHANGED <<http_pc, http_method, http_retries, http_retry_class, not_http_vars>>

\* urlopen hands the response back (no retry, or the retries are exhausted
\* and raise_on_status is False); _request_raw raises on a status >= 400
HttpFinish ==
    /\ http_pc = "response"
    /\ ~is_retry(http_method, http_response) \/ http_remaining = 0
    /\ http_pc' = IF http_response.status_code >= 400 THEN "raised" ELSE "returned"
    /\ UNCHANGED <<http_method, http_retries, http_retry_class, http_remaining, http_sent,
                   http_response, not_http_vars>>

HttpInit ==
    /\ http_pc = "idle"
    /\ http_method = ""
    /\ http_retries \in -1..MaxHttpRetries
    /\ http_retry_class \in BOOLEAN
    /\ http_remaining = 0 /\ http_sent = 0 /\ http_response = NoHttpResponse
    /\ rp_Idle /\ cl_Idle /\ cat_Idle /\ srv_Idle /\ pl_Idle /\ js_Idle /\ sq_Idle /\ mg_Idle

HttpNext ==
    \/ HttpSend
    \/ HttpRetry
    \/ HttpFinish

SpecHttp == HttpInit /\ [][HttpNext]_vars

\* the request is sent once more
Resent == http_pc = "response" /\ http_sent' = http_sent + 1

\* methods that are not idempotent
NonIdempotentMethods == {"POST", "PATCH"}

\* a 429 or 5xx response
RetryableStatus(code) == code = 429 \/ (code >= 500 /\ code <= 599)

\* C21 (transport retries are limited to idempotent methods): a request is
\* sent again only after a 429 or 5xx response, only if its method is
\* idempotent, and at most retry_count times; a POST or PATCH request
\* answered with a status >= 400 is not sent again: the next step of the
\* client raises the error.
C21_RetriesOnlyIdempotent ==
    /\ [][Resent => /\ RetryableStatus(http_response.status_code)
                    /\ http_method \notin NonIdempotentMethods
                    /\ http_sent' <= 1 + retry_count]_vars
    /\ [][http_pc = "response" /\ http_method \in NonIdempotentMethods
             /\ http_response.status_code >= 400
           => http_pc' = "raised" /\ http_sent' = http_sent]_vars

-----------------------------------------------------------------------------
(* The maintenance pipeline: run_pipeline of data_maintenance.py.  A stage   *)
(* is a subprocess; the model keeps its name and its exit code.              *)

\* stage names, as parse_stage_list lets them through
PipelineStages == {"parse", "foods", "units"}

\* return codes of subprocess.run: success, failure, killed by a signal
ExitCodes == {0, 1, -9}

StageLists == UNION {[1..n -> PipelineStages] : n \in 0..MaxStages}

\* StageResult, without the command line
StageResult(stage, exit_code) == [stage |-> stage, exit_code |-> exit_code]

\* a faulty test: the pipeline never fails fast
fails_fast_never(result) == FALSE

\* `if result.exit_code != 0 and not continue_on_error`
fails_fast(result) == result.exit_code # 0 /\ ~pl_continue_on_error

\* one turn of the for loop: run_stage, results.append, and the break
PipelineRunStage ==
    /\ pl_pc = "start"
    /\ Len(pl_calls) < Len(pl_stages)
    /\ LET stage == pl_stages[Len(pl_calls) + 1]
       IN  \E exit_code \in ExitCodes :
              LET result == StageResult(stage, exit_code)
              IN  /\ pl_calls' = Append(pl_calls, stage)
                  /\ pl_results' = Append(pl_results, result)
                  /\ pl_pc' = IF fails_fast(result) THEN "returned" ELSE "start"
    /\ UNCHANGED <<pl_stages, pl_continue_on_error, not_pl_vars>>

\* the for loop is over: return results
PipelineReturn ==
    /\ pl_pc = "start"
    /\ Len(pl_calls) = Len(pl_stages)
    /\ pl_pc' = "returned"
    /\ UNCHANGED <<pl_stages, pl_continue_on_error, pl_results, pl_calls, not_pl_vars>>

PipelineInit ==
    /\ pl_pc = "start"
    /\ pl_stages \in StageLists
    /\ pl_continue_on_error \in BOOLEAN
    /\ pl_results = <<>> /\ pl_calls = <<>>
    /\ rp_Idle /\ cl_Idle /\ cat_Idle /\ srv_Idle /\ http_Idle /\ js_Idle /\ sq_Idle /\ mg_Idle

PipelineNext ==
    \/ PipelineRunStage
    \/ PipelineReturn

SpecPipeline == PipelineInit /\ [][PipelineNext]_vars

\* the index of the first result with a non-zero exit code, 0 when there is none
FirstFailure ==
    IF \E i \in 1..Len(pl_results) : pl_results[i].exit_code # 0
    THEN CHOOSE i \in 1..Len(pl_results) :
            /\ pl_results[i].exit_code # 0
            /\ \A j \in 1..(i - 1) : pl_results[j].exit_code = 0
    ELSE 0

\* C22 (run_pipeline): the stages run in the given order and the result list
\* holds exactly the stages that ran, in order; without continue_on_error no
\* stage runs after the first stage with a non-zero exit code, and the
\* pipeline returns right after it; with continue_on_error every stage has run
\* when the pipeline returns.
C22_RunPipeline ==
    /\ [](/\ Len(pl_calls) <= Len(pl_stages)
          /\ pl_calls = SubSeq(pl_stages, 1, Len(pl_calls))
          /\ Len(pl_results) = Len(pl_calls)
          /\ \A i \in 1..Len(pl_results) : pl_results[i].stage = pl_calls[i])
    /\ [](~pl_continue_on_error /\ FirstFailure # 0 =>
             FirstFailure = Len(pl_results) /\ pl_pc = "returned")
    /\ [][~pl_continue_on_error /\ FirstFailure # 0 => pl_calls' = pl_calls]_vars
    /\ [](pl_pc = "returned" /\ (pl_continue_on_error \/ FirstFailure = 0) =>
             pl_calls = pl_stages)

\* the pipeline failed fast: it returned after a failing stage with a later
\* stage left out
C22_Witness ==
    /\ pl_pc = "returned" /\ ~pl_continue_on_error
    /\ FirstFailure # 0
    /\ Len(pl_results) >= 2 /\ Len(pl_results) < Len(pl_stages)

-----------------------------------------------------------------------------
(* parse_json_response of categorizer_core.py.  A JSON value is held in its  *)
(* compact form, the text json.dumps gives without any whitespace, so       *)
(* two texts decode to the same value exactly when the forms are equal.      *)
(* The JSON of the model has strings, arrays and objects.                    *)

DQ == "\""
LDQ == "LEFT-DOUBLE-QUOTE"
RDQ == "RIGHT-DOUBLE-QUOTE"
SQ == "'"
BT == "BACKTICK"

\* \w of the regular expressions
WordChars == {LowerCase[i] : i \in 1..Len(LowerCase)} \cup {UpperCase[i] : i \in 1..Len(UpperCase)}
               \cup {"0", "1", "2", "3", "4", "5", "6", "7", "8", "9", "_"}

\* the index of the first character at or after i that is not whitespace,
\* Len(t) + 1 when there is none
RECURSIVE SkipWs(_, _)
SkipWs(t, i) == IF i <= Len(t) /\ t[i] \in Whitespace THEN SkipWs(t, i + 1) ELSE i

DecodeFailed == [ok |-> FALSE, pos |-> 0, out |-> <<>>]

Decoded(pos, out) == [ok |-> TRUE, pos |-> pos, out |-> out]

\* json: a string from the quote at i to the next quote; a control character
\* inside is an error
ScanString(t, i) ==
    IF ~\E j \in (i + 1)..Len(t) : t[j] = DQ THEN DecodeFailed
    ELSE LET j == CHOOSE j \in (i + 1)..Len(t) :
                     t[j] = DQ /\ \A k \in (i + 1)..(j - 1) : t[k] # DQ
         IN  IF \E k \in (i + 1)..(j - 1) : t[k] \in {"\n", "\t"} THEN DecodeFailed
             ELSE Decoded(j + 1, SubSeq(t, i, j))

RECURSIVE ScanValue(_, _)
RECURSIVE ScanElements(_, _, _)
RECURSIVE ScanMembers(_, _, _)

\* json: the elements of an array after the bracket or a comma
ScanElements(t, i, acc) ==
    LET v == ScanValue(t, i)
        k == SkipWs(t, v.pos)
    IN  IF ~v.ok \/ k > Len(t) THEN DecodeFailed
        ELSE IF t[k] = "," THEN ScanElements(t, k + 1, acc \o v.out \o <<",">>)
        ELSE IF t[k] = "]" THEN Decoded(k + 1, acc \o v.out \o <<"]">>)
        ELSE DecodeFailed

\* json: the members of an object after the brace or a comma
ScanMembers(t, i, acc) ==
    LET j == SkipWs(t, i)
    IN  IF j > Len(t) \/ t[j] # DQ THEN DecodeFailed
        ELSE LET key == ScanString(t, j)
                 c == SkipWs(t, key.pos)
             IN  IF ~key.ok \/ c > Len(t) \/ t[c] # ":" THEN DecodeFailed
                 ELSE LET v == ScanValue(t, c + 1)
                          k == SkipWs(t, v.pos)
                          out == acc \o key.out \o <<":">> \o v.out
                      IN  IF ~v.ok \/ k > Len(t) THEN DecodeFailed
                          ELSE IF t[k] = "," THEN ScanMembers(t, k + 1, out \o <<",">>)
                          ELSE IF t[k] = "}" THEN Decoded(k + 1, out \o <<"}">>)
                          ELSE DecodeFailed

\* json: one value, after any whitespace
ScanValue(t, i) ==
    LET j == SkipWs(t, i)
    IN  IF j > Len(t) THEN DecodeFailed
        ELSE IF t[j] = DQ THEN ScanString(t, j)
        ELSE IF t[j] = "[" THEN
            (IF SkipWs(t, j + 1) <= Len(t) /\ t[SkipWs(t, j + 1)] = "]"
             THEN Decoded(SkipWs(t, j + 1) + 1, <<"[", "]">>)
             ELSE ScanElements(t, j + 1, <<"[">>))
        ELSE IF t[j] = "{" THEN
            (IF SkipWs(t, j + 1) <= Len(t) /\ t[SkipWs(t, j + 1)] = "}"
             THEN Decoded(SkipWs(t, j + 1) + 1, <<"{", "}">>)
             ELSE ScanMembers(t, j + 1, <<"{">>))
        ELSE DecodeFailed

\* json.loads(text): the value, or NoneV where it raises JSONDecodeError
json_loads(t) ==
    LET v == ScanValue(t, 1)
    IN  IF v.ok /\ SkipWs(t, v.pos) > Len(t) THEN v.out ELSE NoneV

\* the first re.sub, IGNORECASE: an opening fence, the word json after it and
\* the whitespace after that go
StripOpeningFence(t) ==
    IF Len(t) >= 3 /\ SubSeq(t, 1, 3) = <<BT, BT, BT>>
    THEN LET rest == SubSeq(t, 4, Len(t))
         IN  IF Len(rest) >= 4 /\ Lower(SubSeq(rest, 1, 4)) = <<"j", "s", "o", "n">>
             THEN LStrip(SubSeq(rest, 5, Len(rest)))
             ELSE LStrip(rest)
    ELSE t

\* the second re.sub: a closing fence at the end and the whitespace before it go
StripClosingFence(t) ==
    IF Len(t) >= 3 /\ SubSeq(t, Len(t) - 2, Len(t)) = <<BT, BT, BT>>
    THEN RStrip(SubSeq(t, 1, Len(t) - 3))
    ELSE t

\* the three cleaned.replace calls: both curly quotes and the apostrophe become
\* the double quote
NormalizeQuotes(t) ==
    [i \in 1..Len(t) |-> IF t[i] \in {LDQ, RDQ, SQ} THEN DQ ELSE t[i]]

\* SelectSeq with a test on the index
RECURSIVE KeepIndices(_, _, _)
KeepIndices(t, i, keep) ==
    IF i > Len(t) THEN <<>>
    ELSE (IF i \in keep THEN <<t[i]>> ELSE <<>>) \o KeepIndices(t, i + 1, keep)

\* the third re.sub: a comma goes when a closing bracket or brace follows it,
\* whitespace apart
RemoveTrailingCommas(t) ==
    KeepIndices(t, 1, {i \in 1..Len(t) :
        ~(/\ t[i] = ","
          /\ SkipWs(t, i + 1) <= Len(t)
          /\ t[SkipWs(t, i + 1)] \in {"]", "}"})})

\* the fourth re.sub: a run of word characters that ends at a colon is put in
\* double quotes
RECURSIVE QuoteBareKeys(_, _)
QuoteBareKeys(t, i) ==
    IF i > Len(t) THEN <<>>
    ELSE IF t[i] \notin WordChars THEN <<t[i]>> \o QuoteBareKeys(t, i + 1)
    ELSE LET end == CHOOSE j \in i..Len(t) :
                       /\ \A k \in i..j : t[k] \in WordChars
                       /\ j = Len(t) \/ t[j + 1] \notin WordChars
             run == SubSeq(t, i, end)
         IN  IF end < Len(t) /\ t[end + 1] = ":"
             THEN <<DQ>> \o run \o <<DQ>> \o QuoteBareKeys(t, end + 1)
             ELSE run \o QuoteBareKeys(t, end + 1)

\* re.search with DOTALL: from the first opening bracket to the last closing
\* bracket, NoneV when there is no match
SearchArray(t) ==
    LET opens == {i \in 1..Len(t) : t[i] = "["}
        closes == {i \in 1..Len(t) : t[i] = "]"}
    IN  IF opens = {} \/ closes = {} THEN NoneV
        ELSE LET first == CHOOSE i \in opens : \A j \in opens : i <= j
                 last == CHOOSE i \in closes : \A j \in closes : j <= i
             IN  IF first < last THEN SubSeq(t, first, last) ELSE NoneV

\* the text json.loads is given
CleanedResponse(result_text) ==
    QuoteBareKeys(
        RemoveTrailingCommas(
            NormalizeQuotes(StripClosingFence(StripOpeningFence(Strip(result_text))))), 1)

parse_json_response(result_text) ==
    LET cleaned == CleanedResponse(result_text)
    IN  IF json_loads(cleaned) # NoneV THEN json_loads(cleaned)
        ELSE IF SearchArray(cleaned) # NoneV THEN json_loads(SearchArray(cleaned))
        ELSE NoneV

\* ---- the responses of the model ----

T_abc == <<"a", "b", "c">>
T_b == <<"b">>
T_ab == <<"a", "b">>
T_as == <<"a", SQ, "s">>
T_slug == <<"s", "l", "u", "g">>
T_tags == <<"t", "a", "g", "s">>

\* an entry of the array: one slug and one tag, one tag name with an apostrophe
ResponseEntries == {[slug |-> s, tag |-> g] : s \in {T_abc, T_b}, g \in {T_ab, T_as}}

ResponseArrays == UNION {[1..n -> ResponseEntries] : n \in 0..MaxItems}

\* how a response writes its array
Styles == {"clean", "fenced", "trailing_commas", "bare_keys", "smart_quotes", "prose"}

WriteString(text, style) ==
    IF style = "smart_quotes" THEN <<LDQ>> \o text \o <<RDQ>> ELSE <<DQ>> \o text \o <<DQ>>

WriteKey(key, style) == IF style = "bare_keys" THEN key ELSE WriteString(key, style)

WriteComma(style) == IF style = "trailing_commas" THEN <<",">> ELSE <<>>

WriteEntry(entry, style) ==
    <<"{">> \o WriteKey(T_slug, style) \o <<":">> \o WriteString(entry.slug, style) \o <<",">>
      \o WriteKey(T_tags, style) \o <<":">> \o <<"[">> \o WriteString(entry.tag, style)
      \o WriteComma(style) \o <<"]">> \o WriteComma(style) \o <<"}">>

RECURSIVE WriteEntries(_, _)
WriteEntries(array, style) ==
    IF array = <<>> THEN <<>>
    ELSE WriteEntry(Head(array), style)
           \o (IF Len(array) > 1 THEN <<",">> ELSE WriteComma(style))
           \o WriteEntries(Tail(array), style)

WriteArray(array, style) == <<"[">> \o WriteEntries(array, style) \o <<"]">>

\* the response text: the array in the style, inside code fences or after a
\* few words where the style says so
WriteResponse(array, style) ==
    IF style = "fenced"
    THEN <<BT, BT, BT, "j", "s", "o", "n", "\n">> \o WriteArray(array, style) \o <<"\n", BT, BT, BT>>
    ELSE IF style = "prose"
    THEN <<"o", "k", " ">> \o WriteArray(array, style) \o <<" ", "o", "k">>
    ELSE WriteArray(array, style)

\* texts with no array in them: words, nothing, an opening bracket alone, an
\* object
NoArrayTexts ==
    { <<"n", "o", "t", "-", "j", "s", "o", "n">>, <<>>, <<"[", "a", "b">>,
      <<"{">> \o WriteString(T_slug, "clean") \o <<":">> \o WriteString(T_abc, "clean") \o <<"}">> }

Responses == {WriteResponse(a, st) : a \in ResponseArrays, st \in Styles} \cup NoArrayTexts

\* parse_json_response is called with the response and returns
ParseResponse ==
    /\ js_pc = "call"
    /\ js_pc' = "returned"
    /\ js_result' = parse_json_response(js_text)
    /\ UNCHANGED <<js_text, not_js_vars>>

JsonInit ==
    /\ js_pc = "call" /\ js_text \in Responses /\ js_result = NoneV
    /\ rp_Idle /\ cl_Idle /\ cat_Idle /\ srv_Idle /\ http_Idle /\ pl_Idle /\ sq_Idle /\ mg_Idle

JsonNext == ParseResponse

SpecJson == JsonInit /\ [][JsonNext]_vars

\* the styles the claim names
RepairedStyles == {"fenced", "trailing_commas", "bare_keys", "smart_quotes"}

\* C23 (parse_json_response repairs a response): for a response that is a
\* JSON array in code fences, or written with trailing commas, unquoted
\* object keys or smart quotes, the value returned is the array the clean
\* JSON text decodes to; for a text with no array in it the value is None.
C23_RepairedResponseDecodes ==
    js_pc = "returned" =>
       /\ \A a \in ResponseArrays : \A st \in RepairedStyles :
             js_text = WriteResponse(a, st) => js_result = WriteArray(a, "clean")
       /\ js_text \in NoArrayTexts => js_result = NoneV

-----------------------------------------------------------------------------
(* Properties of the parser strategy ladder and of the run summary *)

\* this step calls client.parse_ingredients
IssuesParseCall == rp_calls' # <<>> /\ rp_calls'[1].op = "parse_ingredients"

\* the response is a non-empty list whose every line meets the threshold
Acceptable(response) ==
    /\ response.ok /\ response.parsed # <<>>
    /\ \A k \in 1..Len(response.parsed) :
          response.parsed[k].isnum /\ response.parsed[k].value >= CONFIDENCE_THRESHOLD

\* the last strategy of the configured ones
LastStrategy == DEFAULT_PARSER_STRATEGIES[Len(DEFAULT_PARSER_STRATEGIES)]

\* C31 (parser strategy ladder): the strategies are called in declared order,
\* one per failed attempt so far, and none after one was accepted; a response
\* that is non-empty with every line at or above the threshold is accepted;
\* any other response leaves one attempt record with the strategy and the
\* reason; when the last strategy fails too the recipe gets a review record
\* parser_failed_threshold with the raw lines and every attempt, and the loop
\* goes to the next recipe; a recipe is patched only after a strategy was
\* accepted for it.
C31_StrategyLadder ==
    /\ [][IssuesParseCall =>
            LET call == rp_calls'[1] IN
            /\ rp_pc = "parse" /\ rp_parser_used = ""
            /\ Len(rp_attempts) < Len(DEFAULT_PARSER_STRATEGIES)
            /\ call.strategy = DEFAULT_PARSER_STRATEGIES[Len(rp_attempts) + 1]
            /\ IF Acceptable(call.response)
               THEN /\ rp_parser_used' = call.strategy /\ rp_pc' = "normalize"
                    /\ rp_attempts' = rp_attempts /\ rp_reviews' = rp_reviews
               ELSE /\ rp_parser_used' = ""
                    /\ rp_attempts' = Append(rp_attempts,
                          [strategy |-> call.strategy,
                           error |-> IF ~call.response.ok THEN RequestError
                                     ELSE IF call.response.parsed = <<>>
                                     THEN "empty parser response"
                                     ELSE "below confidence threshold"])
                    /\ IF call.strategy = LastStrategy
                       THEN /\ rp_reviews' = Append(rp_reviews,
                                  [slug |-> rp_idx, reason |-> "parser_failed_threshold",
                                   raw_lines |-> rp_raw_lines, attempts |-> rp_attempts'])
                            /\ Len(rp_attempts') = Len(DEFAULT_PARSER_STRATEGIES)
                            /\ rp_pc' = "fetch"
                       ELSE rp_reviews' = rp_reviews /\ rp_pc' = "parse"]_vars
    /\ [][rp_calls' # <<>> /\ rp_calls'[1].op \in MutatingParserOps =>
            rp_pc = "normalize" /\ rp_parser_used # ""]_vars

\* no strategy was accepted for a recipe: the first answered below the
\* threshold and the last one failed too
C31_Witness ==
    /\ rp_reviews # <<>>
    /\ rp_reviews[Len(rp_reviews)].reason = "parser_failed_threshold"
    /\ rp_reviews[Len(rp_reviews)].attempts[1].error = "below confidence threshold"
    /\ Len(rp_reviews[Len(rp_reviews)].attempts) = Len(DEFAULT_PARSER_STRATEGIES)
    /\ rp_reviews[Len(rp_reviews)].raw_lines # <<>>

\* this step calls client.create_food and the server answers with the
\* uniqueness-constraint conflict
CreateConflict ==
    /\ rp_calls' # <<>> /\ rp_calls'[1].op = "create_food"
    /\ rp_calls'[1].result = "duplicate"

\* this step calls client.patch_recipe_ingredients
IssuesPatchCall == rp_calls' # <<>> /\ rp_calls'[1].op = "patch_recipe_ingredients"

\* C32 (a food-creation conflict goes to review): a create_food call that
\* fails with the uniqueness-constraint conflict is the only call of its
\* step, and a recipe for which such a call failed is not written in the run:
\* no patch_recipe_ingredients call is issued for it.
C32_CreateConflictGoesToReview ==
    /\ [][CreateConflict => Len(rp_calls') = 1]_vars
    /\ [][IssuesPatchCall => ~rp_create_conflict]_vars

\* the candidates that have reached a terminal state: written or planned,
\* skipped as already parsed, skipped as empty, or put on the review list
TerminalCount ==
    rp_summary.parsed_successfully + rp_summary.skipped_already_parsed
       + rp_summary.skipped_empty + Len(rp_reviews)

\* C33 (terminal states partition the candidates): between two recipes the
\* candidates handled so far are exactly those counted in one of the four
\* buckets, the successes are the recipes counted as parsed, and when
\* run_parser returns total_candidates = parsed_successfully + requires_review
\* + skipped_empty + skipped_already_parsed with the review list holding
\* exactly requires_review records.
C33_TerminalStatesPartition ==
    /\ rp_pc = "fetch" => rp_idx = TerminalCount
    /\ rp_pc \in {"fetch", "returned"} => Len(rp_successes) = rp_summary.parsed_successfully
    /\ rp_pc = "returned" =>
          /\ rp_summary.total_candidates = rp_total
          /\ rp_summary.total_candidates
                = rp_summary.parsed_successfully + rp_summary.requires_review
                    + rp_summary.skipped_empty + rp_summary.skipped_already_parsed
          /\ Len(rp_reviews) = rp_summary.requires_review

\* a run over several candidates has returned with two or more of them on
\* the review list, one of them for a parser below the threshold
C33_Witness ==
    /\ rp_pc = "returned" /\ rp_summary.total_candidates = MaxCandidates
    /\ rp_summary.requires_review >= 2
    /\ \E k \in 1..Len(rp_reviews) : rp_reviews[k].reason = "parser_failed_threshold"

-----------------------------------------------------------------------------
(* Properties of the per-recipe fallback of the classification engine *)

\* the prompts a thread handed to safe_query_with_retry in this step
NewPrompts(w) == SelectSeq(NewEvents(w), IsPrompt)

\* thread w handles one recipe of process_batch_with_fallback in this step
FallbackStep(w) == cat_worker[w].pc = "fallback" /\ cat_worker'[w] # cat_worker[w]

\* the entry for the recipe's slug in the answer to its combined prompt
CombinedEntry(w) ==
    extract_entry_for_slug(QueryList(cat_worker'[w].parsed),
                           cat_worker[w].batch[cat_worker[w].i].slug)

\* the step counts the recipe as one without classification
CountedUnclassifiable ==
    cat_stats'["per_recipe_no_classification"] = cat_stats["per_recipe_no_classification"] + 1

\* C34 (fallback ladder order): after a batch answer that is no list, each
\* recipe of the batch is handled in turn, first with the combined prompt for
\* that recipe alone; an entry for its slug ends the ladder, and only without
\* one are the categories-only and then the tags-only prompt issued and their
\* results merged into one update; a recipe for which the split prompts give
\* neither categories nor tags is counted as without classification, advances
\* the progress by one and gets no update and no PATCH.
C34_FallbackLadderOrder ==
    [][\A w \in Workers : FallbackStep(w) =>
          LET me == cat_worker[w]
              slug == me.batch[me.i].slug
              prompts == NewPrompts(w)
              updates == NewUpdates(w)
              combined == Prompt("combined", <<slug>>)
              split == <<combined, Prompt("categories", <<slug>>), Prompt("tags", <<slug>>)>>
          IN  /\ me.i = 1 + Cardinality({k \in 2..Len(me.log) : me.log[k].kind = "combined"})
              /\ prompts = IF IsDict(CombinedEntry(w)) THEN <<combined>> ELSE split
              /\ SubSeq(NewEvents(w), 1, Len(prompts)) = prompts
              /\ Len(updates) <= 1
              /\ IsDict(CombinedEntry(w)) =>
                    /\ Len(updates) = 1 /\ updates[1].slugs = <<slug>>
                    /\ Labels(updates[1].categories, updates[1].tags)
                          = parse_entry_labels(CombinedEntry(w))
                    /\ ~CountedUnclassifiable
              /\ (~IsDict(CombinedEntry(w)) /\ updates # <<>>) =>
                    /\ updates[1].slugs = <<slug>>
                    /\ updates[1].categories # <<>> \/ updates[1].tags # <<>>
                    /\ ~CountedUnclassifiable
              /\ updates = <<>> =>
                    /\ CountedUnclassifiable
                    /\ cat_progress'.done = cat_progress.done + 1
                    /\ cat_patches' = cat_patches
                    /\ cat_worker'[w].i = me.i + 1]_vars

\* a batch of two recipes went through the fallback: the second recipe got,
\* after its combined prompt gave no entry, categories from the one split
\* prompt and tags from the other in one update, and the first was counted
\* as without classification
C34_Witness ==
    \E w \in Workers :
       LET log == cat_worker[w].log
       IN  /\ cat_worker[w].pc = "done" /\ Len(cat_worker[w].batch) = 2
           /\ cat_stats["per_recipe_no_classification"] = 1
           /\ Len(log) = 8
           /\ log[5].kind = "combined" /\ log[6].kind = "categories" /\ log[7].kind = "tags"
           /\ log[8].ev = "update" /\ log[8].categories # <<>> /\ log[8].tags # <<>>

-----------------------------------------------------------------------------
(* run() of the classification engine with calls that return *)

\* Every provider and REST call returns and every thread is scheduled: while
\* some thread of run() can take a step, a step is taken. The steps of run()
\* form no cycle, so this is all the run needs to come to its end.
CatRunFairness == WF_vars(CatRunNext)

SpecCatRunFair == SpecCatRun /\ CatRunFairness

\* some submitted batch is waiting or in progress
BatchesPending ==
    cat_pc = "pool" /\ (cat_queue # <<>> \/ \E w \in Workers : cat_worker[w].pc \notin FreePcs)

\* every submitted batch has completed or crashed
BatchesOver ==
    /\ cat_pc = "pool" /\ cat_queue = <<>>
    /\ \A w \in Workers : cat_worker[w].pc \in FreePcs

\* the batches handed to a thread so far
TakenBatches == {cat_takes[k].batch : k \in 1..Len(cat_takes)}

\* run() has returned after the executor, the stop event set and the
\* reporter thread stopped
RunTerminated ==
    cat_pc = "done" /\ cat_stop_event /\ cat_reporter.pc = "stopped"

\* C35 (batch crash isolation and termination): when the processing of one
\* batch raises, every other batch is still handed to a thread and ends,
\* completed or crashed; once all batches have completed or crashed the stop
\* event is set, the reporter thread stops, and run() prints the summary and
\* returns, every provider and REST call returning.
C35_CrashIsolationAndTermination ==
    /\ (cat_pc = "pool" /\ \E w \in Workers : cat_worker[w].pc = "crashed") ~> BatchesOver
    /\ [](BatchesOver => TakenBatches = 1..Len(cat_batches))
    /\ BatchesOver ~> RunTerminated
    /\ [][cat_pc = "pool" /\ cat_pc' = "done" => BatchesOver /\ cat_stop_event']_vars

\* run() has returned with the reporter stopped after two batches of which
\* one crashed and the other completed
C35_Witness ==
    /\ RunTerminated /\ Len(cat_batches) = 2
    /\ \E w \in Workers, v \in Workers :
          /\ cat_worker[w].pc = "crashed" /\ cat_worker[v].pc = "done"
          /\ cat_worker[w].b # cat_worker[v].b
    /\ cat_progress.done < cat_progress.total

-----------------------------------------------------------------------------
(* categorizer_core.py: safe_query_with_retry, attempt by attempt *)

MaxQueryRetries == 3    \* largest QUERY_RETRIES configured

\* what the provider answers to one query_text call, by what
\* parse_json_response makes of it: nothing (None or an empty text), a text
\* that does not parse, a text that parses to an empty value, a text that
\* parses to a non-empty value
ProviderAnswers == {"nothing", "unparseable", "empty_value", "value"}

\* `if result:` and then `if parsed:`
ParsesToValue(answer) == answer = "value"

\* a query_retries without the lower limit of one
query_retries_unclamped(configured) == configured

\* __init__: self.query_retries = max(1, QUERY_RETRIES)
query_retries(configured) == IF configured < 1 THEN 1 ELSE configured

QueryEvent(ev, attempt, answer) == [ev |-> ev, attempt |-> attempt, answer |-> answer]

\* one turn of the loop: query_text, and either the return of the parsed
\* value or the warning, its counter and the sleep before the next attempt
QueryAttempt ==
    /\ sq_pc = "loop"
    /\ sq_attempt < sq_query_retries
    /\ \E answer \in ProviderAnswers :
          LET query == QueryEvent("query", sq_attempt, answer)
              warn == QueryEvent("warn", sq_attempt, answer)
              sleep == QueryEvent("sleep", sq_attempt, answer)
          IN  IF ParsesToValue(answer)
              THEN /\ sq_pc' = "returned"
                   /\ sq_result' = "value"
                   /\ sq_log' = Append(sq_log, query)
                   /\ UNCHANGED <<sq_attempt, sq_stats>>
              ELSE /\ sq_stats' = [sq_stats EXCEPT !.query_retry_warnings = @ + 1]
                   /\ sq_log' = sq_log \o <<query, warn>>
                                   \o (IF sq_attempt < sq_query_retries - 1 THEN <<sleep>> ELSE <<>>)
                   /\ sq_attempt' = sq_attempt + 1
                   /\ UNCHANGED <<sq_pc, sq_result>>
    /\ UNCHANGED <<sq_query_retries, not_sq_vars>>

\* after the loop: query_failures is incremented and None is returned
QueryExhausted ==
    /\ sq_pc = "loop"
    /\ sq_attempt >= sq_query_retries
    /\ sq_stats' = [sq_stats EXCEPT !.query_failures = @ + 1]
    /\ sq_result' = "None"
    /\ sq_pc' = "returned"
    /\ UNCHANGED <<sq_query_retries, sq_attempt, sq_log, not_sq_vars>>

\* a categorizer configured with any QUERY_RETRIES calls safe_query_with_retry
QueryInit ==
    /\ sq_pc = "loop"
    /\ sq_query_retries \in {query_retries(configured) : configured \in -1..MaxQueryRetries}
    /\ sq_attempt = 0 /\ sq_log = <<>> /\ sq_stats = NoQueryStats /\ sq_result = "unset"
    /\ rp_Idle /\ cl_Idle /\ cat_Idle /\ srv_Idle /\ http_Idle /\ pl_Idle /\ js_Idle /\ mg_Idle

QueryNext == QueryAttempt \/ QueryExhausted

SpecQuery == QueryInit /\ [][QueryNext]_vars

-----------------------------------------------------------------------------
(* Properties of safe_query_with_retry *)

QueryEvents(ev) == {k \in 1..Len(sq_log) : sq_log[k].ev = ev}

\* C36 (bounded query retry): safe_query_with_retry calls the provider at
\* most query_retries times and at least once; it returns the first answer
\* that parses to a non-empty value and calls the provider no more; it sleeps
\* only between two attempts, never after the last one; when every attempt
\* failed it returns None with query_failures incremented once; each failed
\* attempt increments query_retry_warnings once.
C36_BoundedQueryRetry ==
    /\ sq_query_retries >= 1
    /\ Cardinality(QueryEvents("query")) <= sq_query_retries
    /\ sq_stats.query_retry_warnings
          = Cardinality({k \in QueryEvents("query") : ~ParsesToValue(sq_log[k].answer)})
    /\ \A k \in QueryEvents("query") :
          ParsesToValue(sq_log[k].answer) => k = Len(sq_log) /\ sq_pc = "returned"
    /\ \A k \in QueryEvents("sleep") :
          /\ sq_log[k].attempt < sq_query_retries - 1
          /\ sq_pc = "returned" => k < Len(sq_log)
          /\ k < Len(sq_log) => sq_log[k + 1].ev = "query"
    /\ \A k \in QueryEvents("query") :
          k > 1 => sq_log[k - 1].ev = "sleep"
    /\ sq_pc = "returned" =>
          /\ Cardinality(QueryEvents("query")) >= 1
          /\ IF \E k \in QueryEvents("query") : ParsesToValue(sq_log[k].answer)
             THEN sq_result = "value" /\ sq_stats.query_failures = 0
             ELSE /\ sq_result = "None"
                  /\ Cardinality(QueryEvents("query")) = sq_query_retries
                  /\ sq_stats.query_failures = 1
                  /\ sq_stats.query_retry_warnings = sq_query_retries
    /\ sq_pc = "loop" => sq_stats.query_failures = 0

\* a call with three attempts allowed made three provider calls, slept after
\* the first and after the second, and returned None
C36_Witness ==
    /\ sq_pc = "returned" /\ sq_query_retries = 3
    /\ Cardinality(QueryEvents("query")) = 3
    /\ Cardinality(QueryEvents("sleep")) = 2
    /\ sq_result = "None"

-----------------------------------------------------------------------------
(* api_client.py: _merge_entity, candidate payload by candidate payload *)

\* payload_candidates, by the keys of each payload
payload_candidates ==
    << <<"fromId", "toId">>, <<"from", "to">>, <<"sourceId", "targetId">>,
       <<"fromFood", "toFood">>, <<"fromUnit", "toUnit">>, <<"fromTool", "toTool">> >>

MergeRoutes == {"/foods/merge", "/units/merge", "/tools/merge"}

\* what request_json does with one POST: it returns a dict or another JSON
\* value, or raises requests.HTTPError for a status of 400 or more, for a
\* request that could not be sent, or for a body that is not JSON
MergeOutcomes == {"dict", "not_a_dict", "status_error", "not_sent", "not_json"}

MergeSucceeds(outcome) == outcome \in {"dict", "not_a_dict"}

\* the HTTPError request_json raises for a candidate
HTTPError(candidate, outcome) == [candidate |-> candidate, outcome |-> outcome]

\* last_exc = None
NoExc == HTTPError(0, "")

\* an except clause that keeps the first error
except_HTTPError_keeping_first(last_exc, exc) == IF last_exc = NoExc THEN exc ELSE last_exc

\* `except requests.HTTPError as exc: last_exc = exc`
except_HTTPError(last_exc, exc) == exc

\* one turn of the loop over payload_candidates and, after the last
\* candidate, the lines after the loop
MergeTry ==
    /\ mg_pc = "loop"
    /\ mg_next <= Len(payload_candidates)
    /\ \E outcome \in MergeOutcomes :
          LET sent == Append(mg_sent, [payload |-> payload_candidates[mg_next],
                                       route |-> mg_route, outcome |-> outcome])
              last_exc == except_HTTPError(mg_last_exc, HTTPError(mg_next, outcome))
          IN  /\ mg_sent' = sent
              /\ IF MergeSucceeds(outcome)
                 THEN /\ mg_pc' = "returned"
                      /\ mg_result' = IF outcome = "dict" THEN <<"data">> ELSE <<>>
                      /\ UNCHANGED <<mg_next, mg_last_exc>>
                 ELSE /\ mg_last_exc' = last_exc
                      /\ mg_next' = mg_next + 1
                      /\ IF mg_next < Len(payload_candidates)
                         THEN UNCHANGED <<mg_pc, mg_result>>
                         ELSE /\ mg_pc' = "raised"
                              /\ mg_result' = last_exc
    /\ UNCHANGED <<mg_route, not_mg_vars>>

\* merge_food, merge_unit or merge_tool is called
MergeInit ==
    /\ mg_pc = "loop" /\ mg_route \in MergeRoutes /\ mg_next = 1 /\ mg_sent = <<>>
    /\ mg_last_exc = [candidate |-> 0, outcome |-> ""] /\ mg_result = NoneV
    /\ rp_Idle /\ cl_Idle /\ cat_Idle /\ srv_Idle /\ http_Idle /\ pl_Idle /\ js_Idle /\ sq_Idle

MergeNext == MergeTry

SpecMerge == MergeInit /\ [][MergeNext]_vars

-----------------------------------------------------------------------------
(* Properties of the merge payload negotiation *)

\* C37 (merge payload negotiation): for one merge the client sends the
\* candidate payloads in the order of payload_candidates, each to the route
\* of the merge; it returns at the first request that succeeds and sends
\* nothing after a success; it raises only when every candidate has failed,
\* and then with the error of the last candidate.
C37_MergePayloadNegotiation ==
    /\ Len(mg_sent) <= Len(payload_candidates)
    /\ \A k \in 1..Len(mg_sent) :
          /\ mg_sent[k].payload = payload_candidates[k]
          /\ mg_sent[k].route = mg_route
          /\ MergeSucceeds(mg_sent[k].outcome) => k = Len(mg_sent) /\ mg_pc = "returned"
    /\ mg_pc = "returned" => mg_sent # <<>> /\ MergeSucceeds(mg_sent[Len(mg_sent)].outcome)
    /\ mg_pc = "raised" =>
          /\ Len(mg_sent) = Len(payload_candidates)
          /\ \A k \in 1..Len(mg_sent) : ~MergeSucceeds(mg_sent[k].outcome)
          /\ mg_result = HTTPError(Len(payload_candidates),
                                   mg_sent[Len(payload_candidates)].outcome)
    /\ mg_pc = "loop" => \A k \in 1..Len(mg_sent) : ~MergeSucceeds(mg_sent[k].outcome)

\* a merge has returned at its third candidate after two rejected ones
C37_Witness ==
    /\ mg_pc = "returned" /\ Len(mg_sent) = 3
    /\ mg_sent[1].outcome = "status_error" /\ mg_sent[2].outcome = "status_error"
    /\ mg_sent[3].payload = <<"sourceId", "targetId">>

-----------------------------------------------------------------------------
(* The audit plan and the merges of an apply run *)

\* the entities the server held before the first run
InitialEntities == {e \in cl_remote : e.id <= MaxEntities}

\* the plan an audit run builds from the entities the server held before the
\* first run and the configuration file of the run
AuditPlan ==
    IF cl_engine = "foods" THEN build_merge_plan(InitialEntities, cl_recipes)
    ELSE IF cl_engine = "units"
    THEN UnitsPlan(units_by_norm(InitialEntities), EmptyMap, load_aliases(cl_config_file))
    ELSE build_duplicate_actions(InitialEntities)

\* the (source, target) pairs an audit run reports as planned: the actions
\* of its plan whose source is not in the checkpoint
AuditPairs ==
    {<<AuditPlan[k].source_id, AuditPlan[k].target_id>> :
        k \in {j \in 1..Len(AuditPlan) : AuditPlan[j].source_id \notin cl_checkpoint}}

\* the (source, target) pairs the run attempted
AttemptedPairs ==
    {<<cl_report.attempted_actions[k].source_id, cl_report.attempted_actions[k].target_id>> :
        k \in 1..Len(cl_report.attempted_actions)}

\* the first run, in apply mode, has written its report without stopping at
\* the cap
ApplyRunComplete ==
    /\ cl_run = "first" /\ ApplyMode /\ cl_pc = "done"
    /\ cl_report.actions_attempted + cl_report.checkpoint_skipped
          = cl_report.merge_candidates_total

\* C38 (audit predicts apply): for the same remote entities, configuration
\* file and checkpoint, the (source, target) pairs an audit run reports as
\* planned are the pairs an apply run attempts when it does not stop at the
\* cap, for the foods, units and tools engines, a units run whose alias file
\* names a canonical unit the server does not hold included.
C38_AuditPredictsApply ==
    ApplyRunComplete => AttemptedPairs = AuditPairs

-----------------------------------------------------------------------------
(* The shape of the merge plans *)

\* the run has built its plan
MergePlanBuilt == cl_pc \in {"loop", "report", "done"}

PlanSourceIds == {cl_plan[k].source_id : k \in 1..Len(cl_plan)}

PlanTargetIds == {cl_plan[k].target_id : k \in 1..Len(cl_plan)}

\* C39 (merge plans are flat): in every plan the foods, units and tools
\* engines build, a source id has exactly one action and no source id is the
\* target of an action of the plan, so that source and target differ and the
\* merges never chain, for every remote entity list and every alias file
\* that loads without error.
C39_MergePlansAreFlat ==
    MergePlanBuilt =>
        /\ \A j, k \in 1..Len(cl_plan) :
              cl_plan[j].source_id = cl_plan[k].source_id => j = k
        /\ PlanSourceIds \cap PlanTargetIds = {}

\* the normalized names the alias file gives both as a canonical name and as
\* an alias of another canonical name
AliasedCanonicals ==
    LET loaded == load_aliases(cl_config_file)
    IN  {loaded.canonical_display[i].norm : i \in 1..Len(loaded.canonical_display)}
           \cap {pair[1] : pair \in loaded.alias_to_canonical}

\* What every plan does satisfy: a source id has exactly one action and
\* differs from the target of its action, and a source id is the target of
\* another action only in a units plan, for a unit whose name the alias file
\* gives both as a canonical name and as an alias.
PlanHasOneActionPerSource ==
    MergePlanBuilt =>
        /\ \A j, k \in 1..Len(cl_plan) :
              cl_plan[j].source_id = cl_plan[k].source_id => j = k
        /\ \A k \in 1..Len(cl_plan) :
              /\ cl_plan[k].source_id # cl_plan[k].target_id
              /\ cl_plan[k].source_id \in PlanTargetIds =>
                    /\ cl_engine = "units"
                    /\ normalize_name(Strip(cl_plan[k].source_name)) \in AliasedCanonicals

-----------------------------------------------------------------------------
(* Target selection and the cache skip *)

\* the recipes run() has put into batches
SelectedTargets ==
    UNION {{cat_batches[b][i] : i \in 1..Len(cat_batches[b])} : b \in 1..Len(cat_batches)}

\* run() has selected its targets, force re-categorize being off
SelectiveRunStarted == cat_pc \in {"pool", "done"} /\ ~cat_replace_existing

\* C40 (target selection and cache skip never overlap): in a run started by
\* run() without force re-categorize, under each of the policies
\* missing-categories, missing-tags and missing-either, every selected target
\* has no category or no tag, the test of the cache skip fails for it
\* whatever the cache holds, and cached_skipped is 0 during the whole run.
C40_SelectionAndCacheSkipDisjoint ==
    SelectiveRunStarted =>
        /\ \A r \in SelectedTargets :
              /\ r.recipeCategory = <<>> \/ r.tags = <<>>
              /\ ~cache_hit(r, cat_cache)
        /\ cat_stats["cached_skipped"] = 0

\* a finished run with writes enabled whose cache file named every recipe:
\* a recipe with categories and tags was not selected, the selected ones
\* were all in the cache, and none was skipped
C40_Witness ==
    /\ SelectiveRunStarted /\ cat_pc = "done" /\ ~cat_dry_run
    /\ SelectedTargets # {}
    /\ \A r \in SelectedTargets : r.slug \in DOMAIN cat_cache_file
    /\ \E i \in 1..Len(cat_recipes) :
          /\ cat_recipes[i] \notin SelectedTargets
          /\ cache_hit(cat_recipes[i], cat_cache_file)
    /\ cat_stats["cached_skipped"] = 0
    /\ cat_progress.done = cat_progress.total

====
